---- MODULE Spec2Model ----
(***************************************************************************)
(* QuickConvertTool: the unit converters (length, weight, temperature,     *)
(* data size, battery, currency), the currency converter's exchange-rate   *)
(* cache, and the converter registry.                                      *)
(*                                                                         *)
(* Conventions.                                                            *)
(*  - A number is the exact real n/d * 2^e2 * 5^e5 in canonical form (n, d *)
(*    coprime, both coprime to 10, d > 0).  The exponents keep the source's*)
(*    factor tables (2^43 bits per TB, 10^-12 fractions of a kilogram)     *)
(*    inside the integer range of the model checker.  Float rounding is    *)
(*    not modelled.                                                        *)
(*  - A unit label is the sequence of its tokens, so that the currency     *)
(*    label "CNY(...)" can be split at its first "(" as the code does.     *)
(*  - Strings of the source that are not ASCII are transliterated (the     *)
(*    display names of the currencies and three converter names).          *)
(*  - Every Python ValueError carries the error kind of the design as its  *)
(*    kind: UnsupportedUnit (validate_unit), InvalidParameter (battery     *)
(*    voltage), ExchangeRateUnavailable (rate fetch).  Other exception     *)
(*    classes keep their Python name.                                      *)
(***************************************************************************)
EXTENDS Integers, Sequences, FiniteSets, TLC

VARIABLES
    cached_rates,     \* CurrencyConverter._cached_rates (class attribute)
    cache_timestamp,  \* CurrencyConverter._cache_timestamp (class attribute)
    now,              \* the value time.time() returns
    lastCall,         \* the last Converter.convert call and its outcome
    converters,       \* ConverterRegistry._converters (insertion ordered)
    regCall,          \* the last registry operation and its outcome
    registered,       \* history: name -> the instance of the most recent
                      \* successful register not unregistered or cleared since
    lastRateCall,     \* history: how the most recent currency conversion
                      \* between two distinct supported units ended
    lastFetch,        \* history: the table built from the most recent
                      \* accepted response and the time read at entry of
                      \* the call that sent the request
    threads,          \* each thread's position in CurrencyConverter.convert
                      \* and its local variables
    fetches,          \* history: the tables the threads built from accepted
                      \* responses, each with the current_time of its call
    ui,               \* the MainWindow: its current converter, the text of
                      \* its fields, and what the last handler showed
    instances         \* history: self of the currency conversion that has
                      \* just returned, and the instance whose call last
                      \* assigned the two class attributes (0 for none)

vars == <<cached_rates, cache_timestamp, now, lastCall, converters, regCall,
          registered, lastRateCall, lastFetch, threads, fetches, ui,
          instances>>

-----------------------------------------------------------------------------
(* Numbers                                                                 *)

Abs(k) == IF k < 0 THEN -k ELSE k

RECURSIVE GCD(_, _)
GCD(a, b) == IF b = 0 THEN a ELSE GCD(b, a % b)

RECURSIVE Pow(_, _)
Pow(b, k) == IF k = 0 THEN 1 ELSE b * Pow(b, k - 1)

\* the exponent of the prime p in k (k # 0)
RECURSIVE Mult(_, _)
Mult(k, p) == IF k % p = 0 THEN 1 + Mult(k \div p, p) ELSE 0

Min(a, b) == IF a <= b THEN a ELSE b

Zero == [n |-> 0, d |-> 1, e2 |-> 0, e5 |-> 0]

\* canonical form of n/d * 2^e2 * 5^e5 (d # 0)
Norm(n, d, e2, e5) ==
    IF n = 0 THEN Zero
    ELSE LET s  == IF d < 0 THEN -1 ELSE 1
             g  == GCD(Abs(n), Abs(d))
             an == Abs(n) \div g
             ad == Abs(d) \div g
             n2 == Mult(an, 2)
             n5 == Mult(an, 5)
             d2 == Mult(ad, 2)
             d5 == Mult(ad, 5)
         IN  [n  |-> (IF n < 0 THEN -s ELSE s) * (an \div (Pow(2, n2) * Pow(5, n5))),
              d  |-> ad \div (Pow(2, d2) * Pow(5, d5)),
              e2 |-> e2 + n2 - d2,
              e5 |-> e5 + n5 - d5]

Num(n) == Norm(n, 1, 0, 0)
Frac(n, d) == Norm(n, d, 0, 0)

\* a * b, cross-reduced before multiplying
RMul(a, b) ==
    IF a.n = 0 \/ b.n = 0 THEN Zero
    ELSE LET g1 == GCD(Abs(a.n), b.d)
             g2 == GCD(Abs(b.n), a.d)
         IN  Norm((a.n \div g1) * (b.n \div g2), (a.d \div g2) * (b.d \div g1),
                  a.e2 + b.e2, a.e5 + b.e5)

RInv(a) == Norm(a.d, a.n, -a.e2, -a.e5)

\* a / b for b # 0
RDiv(a, b) == RMul(a, RInv(b))

RAdd(a, b) ==
    IF a.n = 0 THEN b
    ELSE IF b.n = 0 THEN a
    ELSE LET m2 == Min(a.e2, b.e2)
             m5 == Min(a.e5, b.e5)
             ka == Pow(2, a.e2 - m2) * Pow(5, a.e5 - m5)
             kb == Pow(2, b.e2 - m2) * Pow(5, b.e5 - m5)
             g  == GCD(a.d, b.d)
         IN  Norm(a.n * ka * (b.d \div g) + b.n * kb * (a.d \div g),
                  (a.d \div g) * b.d, m2, m5)

RNeg(a) == [a EXCEPT !.n = -a.n]
RSub(a, b) == RAdd(a, RNeg(b))
RIsZero(a) == a.n = 0
RLeqZero(a) == a.n <= 0

\* the placeholder where a call carries or returns no number
NoNum == [n |-> 0, d |-> 0, e2 |-> 0, e5 |-> 0]

-----------------------------------------------------------------------------
(* Unit labels and call outcomes                                           *)

U(s) == <<s>>
NoUnit == <<>>

Ok(v) == [kind |-> "ok", val |-> v, unit |-> NoUnit]
Raise(k) == [kind |-> k, val |-> NoNum, unit |-> NoUnit]
RaiseUnit(u) == [kind |-> "UnsupportedUnit", val |-> NoNum, unit |-> u]
NoRaise == [kind |-> "none", val |-> NoNum, unit |-> NoUnit]

\* Python's "x in list" over a sequence
InList(x, list) == \E i \in 1..Len(list) : list[i] = x
ListSet(list) == {list[i] : i \in 1..Len(list)}


\* Python's None and a present value
None == [some |-> FALSE]
Some(x) == [some |-> TRUE, val |-> x]

\* an insertion-ordered dict as the sequence of its <<key, value>> items
DictKeys(dict) == [i \in 1..Len(dict) |-> dict[i][1]]
HasKey(dict, key) == \E i \in 1..Len(dict) : dict[i][1] = key
\* dict[key] for a key of the dict (Python raises KeyError for any other)
DictGet(dict, key) == dict[CHOOSE i \in 1..Len(dict) : dict[i][1] = key][2]

-----------------------------------------------------------------------------
(* core/converter.py                                                       *)

\* validate_unit accepting every label that is not empty
validate_unit_nonempty(units, unit) ==
    IF unit = NoUnit THEN RaiseUnit(unit) ELSE NoRaise

\* Converter.validate_unit: NoRaise, or the ValueError "Unsupported unit"
validate_unit(units, unit) ==
    IF ~InList(unit, units) THEN RaiseUnit(unit) ELSE NoRaise

-----------------------------------------------------------------------------
(* converters/length.py                                                    *)

_TO_METERS ==
    << <<U("m"), Num(1)>>, <<U("km"), Num(1000)>>, <<U("cm"), Frac(1, 100)>>,
       <<U("mm"), Frac(1, 1000)>>, <<U("mile"), Frac(1609344, 1000)>>,
       <<U("yard"), Frac(9144, 10000)>>, <<U("ft"), Frac(3048, 10000)>>,
       <<U("inch"), Frac(254, 10000)>> >>

LengthConverter_name == "Length"
LengthConverter_units == DictKeys(_TO_METERS)

\* LengthConverter.convert validating to_unit before from_unit
LengthConverter_convert_to_unit_first(value, from_unit, to_unit) ==
    LET e1 == validate_unit(LengthConverter_units, from_unit)
        e2 == validate_unit(LengthConverter_units, to_unit)
    IN  IF e2.kind # "none" THEN e2
        ELSE IF e1.kind # "none" THEN e1
        ELSE IF from_unit = to_unit THEN Ok(value)
        ELSE IF ~HasKey(_TO_METERS, from_unit) \/ ~HasKey(_TO_METERS, to_unit)
             THEN Raise("KeyError")
        ELSE LET meters == RMul(value, DictGet(_TO_METERS, from_unit))
             IN  Ok(RDiv(meters, DictGet(_TO_METERS, to_unit)))

LengthConverter_convert(value, from_unit, to_unit) ==
    LET e1 == validate_unit(LengthConverter_units, from_unit)
        e2 == validate_unit(LengthConverter_units, to_unit)
    IN  IF e1.kind # "none" THEN e1
        ELSE IF e2.kind # "none" THEN e2
        ELSE IF from_unit = to_unit THEN Ok(value)
        ELSE IF ~HasKey(_TO_METERS, from_unit) \/ ~HasKey(_TO_METERS, to_unit)
             THEN Raise("KeyError")
        ELSE LET meters == RMul(value, DictGet(_TO_METERS, from_unit))
             IN  Ok(RDiv(meters, DictGet(_TO_METERS, to_unit)))

-----------------------------------------------------------------------------
(* converters/weight.py                                                    *)

\* 0.45359237 = 45359237 / 10^8 and 0.028349523125 = 45359237 / (16 * 10^8)
_TO_KILOGRAMS ==
    << <<U("kg"), Num(1)>>, <<U("g"), Frac(1, 1000)>>,
       <<U("mg"), Frac(1, 1000000)>>, <<U("ton"), Num(1000)>>,
       <<U("lb"), Norm(45359237, 1, -8, -8)>>,
       <<U("oz"), Norm(45359237, 1, -12, -8)>> >>

WeightConverter_name == "Weight"
WeightConverter_units == DictKeys(_TO_KILOGRAMS)

WeightConverter_convert(value, from_unit, to_unit) ==
    LET e1 == validate_unit(WeightConverter_units, from_unit)
        e2 == validate_unit(WeightConverter_units, to_unit)
    IN  IF e1.kind # "none" THEN e1
        ELSE IF e2.kind # "none" THEN e2
        ELSE IF from_unit = to_unit THEN Ok(value)
        ELSE IF ~HasKey(_TO_KILOGRAMS, from_unit) \/ ~HasKey(_TO_KILOGRAMS, to_unit)
             THEN Raise("KeyError")
        ELSE LET kilograms == RMul(value, DictGet(_TO_KILOGRAMS, from_unit))
             IN  Ok(RDiv(kilograms, DictGet(_TO_KILOGRAMS, to_unit)))

-----------------------------------------------------------------------------
(* converters/data_unit.py                                                 *)

\* a table whose KB, MB, GB and TB are decimal: 8000 = 2^6 * 5^3 bits and
\* so on
_TO_BITS_decimal ==
    << <<U("bit"), Num(1)>>, <<U("byte"), Num(8)>>,
       <<U("KB"), Norm(1, 1, 6, 3)>>, <<U("MB"), Norm(1, 1, 9, 6)>>,
       <<U("GB"), Norm(1, 1, 12, 9)>>, <<U("TB"), Norm(1, 1, 15, 12)>>,
       <<U("KiB"), Norm(1, 1, 13, 0)>>, <<U("MiB"), Norm(1, 1, 23, 0)>>,
       <<U("GiB"), Norm(1, 1, 33, 0)>>, <<U("TiB"), Norm(1, 1, 43, 0)>> >>

\* 8 = 2^3, 8192 = 2^13, 8388608 = 2^23, 8589934592 = 2^33,
\* 8796093022208 = 2^43
_TO_BITS ==
    << <<U("bit"), Num(1)>>, <<U("byte"), Num(8)>>,
       <<U("KB"), Norm(1, 1, 13, 0)>>, <<U("MB"), Norm(1, 1, 23, 0)>>,
       <<U("GB"), Norm(1, 1, 33, 0)>>, <<U("TB"), Norm(1, 1, 43, 0)>>,
       <<U("KiB"), Norm(1, 1, 13, 0)>>, <<U("MiB"), Norm(1, 1, 23, 0)>>,
       <<U("GiB"), Norm(1, 1, 33, 0)>>, <<U("TiB"), Norm(1, 1, 43, 0)>> >>

DataUnitConverter_name == "shuju danwei"
DataUnitConverter_units == DictKeys(_TO_BITS)

DataUnitConverter_convert(value, from_unit, to_unit) ==
    LET e1 == validate_unit(DataUnitConverter_units, from_unit)
        e2 == validate_unit(DataUnitConverter_units, to_unit)
    IN  IF e1.kind # "none" THEN e1
        ELSE IF e2.kind # "none" THEN e2
        ELSE IF from_unit = to_unit THEN Ok(value)
        ELSE IF ~HasKey(_TO_BITS, from_unit) \/ ~HasKey(_TO_BITS, to_unit)
             THEN Raise("KeyError")
        ELSE LET bits == RMul(value, DictGet(_TO_BITS, from_unit))
             IN  Ok(RDiv(bits, DictGet(_TO_BITS, to_unit)))

-----------------------------------------------------------------------------
(* converters/temperature.py                                               *)

_UNITS == <<U("C"), U("F"), U("K")>>

TemperatureConverter_name == "wendu"
TemperatureConverter_units == _UNITS

_to_celsius(value, from_unit) ==
    IF from_unit = U("C") THEN Ok(value)
    ELSE IF from_unit = U("F")
         THEN Ok(RDiv(RMul(RSub(value, Num(32)), Num(5)), Num(9)))
    ELSE IF from_unit = U("K") THEN Ok(RSub(value, Frac(27315, 100)))
    ELSE Raise("UnknownUnit")

\* Celsius to Fahrenheit with the offset added before the scaling
_from_celsius_offset_first(celsius, to_unit) ==
    IF to_unit = U("C") THEN Ok(celsius)
    ELSE IF to_unit = U("F")
         THEN Ok(RDiv(RMul(RAdd(celsius, Num(32)), Num(9)), Num(5)))
    ELSE IF to_unit = U("K") THEN Ok(RAdd(celsius, Frac(27315, 100)))
    ELSE Raise("UnknownUnit")

_from_celsius(celsius, to_unit) ==
    IF to_unit = U("C") THEN Ok(celsius)
    ELSE IF to_unit = U("F")
         THEN Ok(RAdd(RDiv(RMul(celsius, Num(9)), Num(5)), Num(32)))
    ELSE IF to_unit = U("K") THEN Ok(RAdd(celsius, Frac(27315, 100)))
    ELSE Raise("UnknownUnit")

TemperatureConverter_convert(value, from_unit, to_unit) ==
    LET e1 == validate_unit(TemperatureConverter_units, from_unit)
        e2 == validate_unit(TemperatureConverter_units, to_unit)
    IN  IF e1.kind # "none" THEN e1
        ELSE IF e2.kind # "none" THEN e2
        ELSE IF from_unit = to_unit THEN Ok(value)
        ELSE LET celsius == _to_celsius(value, from_unit)
             IN  IF celsius.kind # "ok" THEN celsius
                 ELSE _from_celsius(celsius.val, to_unit)

-----------------------------------------------------------------------------
(* core/parameterized_converter.py and converters/battery.py               *)

_CHARGE_UNITS == <<U("mAh"), U("Ah")>>
_ENERGY_UNITS == <<U("Wh"), U("kWh")>>

BatteryConverter_name == "Battery"
BatteryConverter_units == _CHARGE_UNITS \o _ENERGY_UNITS

\* the nominal voltage of a nickel cell as the default
DefaultVoltage_nickel == Frac(12, 10)

\* the default of the voltage argument of _convert_with_params
DefaultVoltage == Frac(37, 10)

\* **kwargs: voltage is NoNum when the caller omits it; extra says that
\* some named parameter other than voltage is passed
Kwargs(voltage, extra) == [voltage |-> voltage, extra |-> extra]
NoKwargs == Kwargs(NoNum, FALSE)

_to_mah(value, unit) ==
    IF unit = U("mAh") THEN Ok(value)
    ELSE IF unit = U("Ah") THEN Ok(RMul(value, Num(1000)))
    ELSE Raise("UnknownUnit")

_from_mah(mAh, unit) ==
    IF unit = U("mAh") THEN Ok(mAh)
    ELSE IF unit = U("Ah") THEN Ok(RDiv(mAh, Num(1000)))
    ELSE Raise("UnknownUnit")

_to_ah(value, unit) ==
    IF unit = U("Ah") THEN Ok(value)
    ELSE IF unit = U("mAh") THEN Ok(RDiv(value, Num(1000)))
    ELSE Raise("UnknownUnit")

_from_ah(ah, unit) ==
    IF unit = U("Ah") THEN Ok(ah)
    ELSE IF unit = U("mAh") THEN Ok(RMul(ah, Num(1000)))
    ELSE Raise("UnknownUnit")

_to_wh(value, unit) ==
    IF unit = U("Wh") THEN Ok(value)
    ELSE IF unit = U("kWh") THEN Ok(RMul(value, Num(1000)))
    ELSE Raise("UnknownUnit")

_from_wh(wh, unit) ==
    IF unit = U("Wh") THEN Ok(wh)
    ELSE IF unit = U("kWh") THEN Ok(RDiv(wh, Num(1000)))
    ELSE Raise("UnknownUnit")

_convert_charge(value, from_unit, to_unit) ==
    LET from_mah == _to_mah(value, from_unit)
    IN  IF from_mah.kind # "ok" THEN from_mah
        ELSE _from_mah(from_mah.val, to_unit)

_convert_energy(value, from_unit, to_unit) ==
    LET from_wh == _to_wh(value, from_unit)
    IN  IF from_wh.kind # "ok" THEN from_wh
        ELSE _from_wh(from_wh.val, to_unit)

\* charge to energy with the voltage applied to milliampere-hours
_convert_charge_to_energy_mah(value, from_unit, to_unit, voltage) ==
    LET mah == _to_mah(value, from_unit)
    IN  IF mah.kind # "ok" THEN mah
        ELSE _from_wh(RMul(mah.val, voltage), to_unit)

_convert_charge_to_energy(value, from_unit, to_unit, voltage) ==
    LET ah == _to_ah(value, from_unit)
    IN  IF ah.kind # "ok" THEN ah
        ELSE _from_wh(RMul(ah.val, voltage), to_unit)

_convert_energy_to_charge(value, from_unit, to_unit, voltage) ==
    LET wh == _to_wh(value, from_unit)
    IN  IF wh.kind # "ok" THEN wh
        ELSE _from_ah(RDiv(wh.val, voltage), to_unit)

\* _convert_with_params declared without **kwargs: Python refuses a named
\* parameter the function does not declare
_convert_with_params_no_kwargs(value, from_unit, to_unit, kwargs) ==
    LET voltage == IF kwargs.voltage = NoNum THEN DefaultVoltage
                   ELSE kwargs.voltage
        from_charge == InList(from_unit, _CHARGE_UNITS)
        to_charge == InList(to_unit, _CHARGE_UNITS)
    IN  IF kwargs.extra THEN Raise("TypeError")
        ELSE IF RLeqZero(voltage) THEN Raise("InvalidParameter")
        ELSE IF from_charge /\ to_charge
             THEN _convert_charge(value, from_unit, to_unit)
        ELSE IF ~from_charge /\ ~to_charge
             THEN _convert_energy(value, from_unit, to_unit)
        ELSE IF from_charge /\ ~to_charge
             THEN _convert_charge_to_energy(value, from_unit, to_unit, voltage)
        ELSE _convert_energy_to_charge(value, from_unit, to_unit, voltage)

\* _convert_with_params with the voltage checked only where it is used, on
\* the two paths that cross the families
_convert_with_params_late_check(value, from_unit, to_unit, kwargs) ==
    LET voltage == IF kwargs.voltage = NoNum THEN DefaultVoltage
                   ELSE kwargs.voltage
        from_charge == InList(from_unit, _CHARGE_UNITS)
        to_charge == InList(to_unit, _CHARGE_UNITS)
    IN  IF from_charge /\ to_charge
        THEN _convert_charge(value, from_unit, to_unit)
        ELSE IF ~from_charge /\ ~to_charge
             THEN _convert_energy(value, from_unit, to_unit)
        ELSE IF RLeqZero(voltage) THEN Raise("InvalidParameter")
        ELSE IF from_charge /\ ~to_charge
             THEN _convert_charge_to_energy(value, from_unit, to_unit, voltage)
        ELSE _convert_energy_to_charge(value, from_unit, to_unit, voltage)

\* BatteryConverter._convert_with_params(value, from_unit, to_unit,
\*                                       voltage=3.7, **kwargs)
_convert_with_params(value, from_unit, to_unit, kwargs) ==
    LET voltage == IF kwargs.voltage = NoNum THEN DefaultVoltage
                   ELSE kwargs.voltage
        from_charge == InList(from_unit, _CHARGE_UNITS)
        to_charge == InList(to_unit, _CHARGE_UNITS)
    IN  IF RLeqZero(voltage) THEN Raise("InvalidParameter")
        ELSE IF from_charge /\ to_charge
             THEN _convert_charge(value, from_unit, to_unit)
        ELSE IF ~from_charge /\ ~to_charge
             THEN _convert_energy(value, from_unit, to_unit)
        ELSE IF from_charge /\ ~to_charge
             THEN _convert_charge_to_energy(value, from_unit, to_unit, voltage)
        ELSE _convert_energy_to_charge(value, from_unit, to_unit, voltage)

\* ParameterizedConverter.convert with the voltage checked on entry
ParameterizedConverter_convert_voltage_first(value, from_unit, to_unit, kwargs) ==
    LET e1 == validate_unit(BatteryConverter_units, from_unit)
        e2 == validate_unit(BatteryConverter_units, to_unit)
        voltage == IF kwargs.voltage = NoNum THEN DefaultVoltage
                   ELSE kwargs.voltage
    IN  IF RLeqZero(voltage) THEN Raise("InvalidParameter")
        ELSE IF e1.kind # "none" THEN e1
        ELSE IF e2.kind # "none" THEN e2
        ELSE IF from_unit = to_unit THEN Ok(value)
        ELSE _convert_with_params(value, from_unit, to_unit, kwargs)

\* ParameterizedConverter.convert without the same-unit return
ParameterizedConverter_convert_no_identity(value, from_unit, to_unit, kwargs) ==
    LET e1 == validate_unit(BatteryConverter_units, from_unit)
        e2 == validate_unit(BatteryConverter_units, to_unit)
    IN  IF e1.kind # "none" THEN e1
        ELSE IF e2.kind # "none" THEN e2
        ELSE _convert_with_params(value, from_unit, to_unit, kwargs)

\* ParameterizedConverter.convert, as inherited by BatteryConverter
ParameterizedConverter_convert(value, from_unit, to_unit, kwargs) ==
    LET e1 == validate_unit(BatteryConverter_units, from_unit)
        e2 == validate_unit(BatteryConverter_units, to_unit)
    IN  IF e1.kind # "none" THEN e1
        ELSE IF e2.kind # "none" THEN e2
        ELSE IF from_unit = to_unit THEN Ok(value)
        ELSE _convert_with_params(value, from_unit, to_unit, kwargs)

-----------------------------------------------------------------------------
(* converters/currency.py                                                  *)

_BASE_CURRENCY == "USD"
_CACHE_DURATION == 600

\* code -> display name (transliterated)
_CURRENCIES ==
    << <<"CNY", "renminbi">>, <<"USD", "meiyuan">>, <<"EUR", "ouyuan">>,
       <<"JPY", "riyuan">>, <<"GBP", "yingbang">>, <<"KRW", "hanyuan">>,
       <<"HKD", "gangbi">>, <<"AUD", "aoyuan">>, <<"CAD", "jiayuan">>,
       <<"SGD", "xinbi">> >>

CurrencyCodes == ListSet(DictKeys(_CURRENCIES))

CurrencyConverter_name == "huobi"

\* f"{code}({name})" as the tokens code, "(", name, ")"
CurrencyConverter_units ==
    [i \in 1..Len(_CURRENCIES) |->
        <<_CURRENCIES[i][1], "(", _CURRENCIES[i][2], ")">>]

RECURSIVE Join(_)
Join(tokens) == IF tokens = <<>> THEN "" ELSE tokens[1] \o Join(Tail(tokens))

\* unit.split("(")[0]: the text before the first "("
_parse_unit(unit) ==
    LET opens == {i \in 1..Len(unit) : unit[i] = "("}
        first == IF opens = {} THEN Len(unit) + 1
                 ELSE CHOOSE i \in opens : \A j \in opens : i <= j
    IN  Join(SubSeq(unit, 1, first - 1))

\* What requests.get(...), raise_for_status() and json() deliver.
\*   kind:   Timeout, ConnectionError, RequestException (any other transport
\*           failure), HTTPError (raise_for_status), InvalidJSON (json()
\*           raises), NotObject (the JSON value is not an object), Object
\*   result: the "result" field of the object ("absent" when missing)
\*   shape:  the "rates" field: mapping, absent, null or list
\*   rates:  the mapping, code -> rate; NoNum is a value float() rejects
Response(kind, result, shape, rates) ==
    [kind |-> kind, result |-> result, shape |-> shape, rates |-> rates]
NoRates == [c \in {} |-> Zero]
NoResponse == Response("none", "absent", "absent", NoRates)

\* the cache check with its comparison turned around
CacheValid_inverted(c_rates, c_timestamp, current_time) ==
    /\ c_rates # None
    /\ c_timestamp # None
    /\ (current_time - c_timestamp.val) > _CACHE_DURATION

\* the cache check accepting an age of exactly the cache duration
CacheValid_inclusive(c_rates, c_timestamp, current_time) ==
    /\ c_rates # None
    /\ c_timestamp # None
    /\ (current_time - c_timestamp.val) <= _CACHE_DURATION

\* "self._cached_rates" and "self._cache_timestamp" read through an
\* attribute that the storing instance keeps for itself
SelfAttr_own(self, stored_by, class_attr) ==
    IF self = stored_by THEN class_attr ELSE None

\* "self._cached_rates" and "self._cache_timestamp": no instance has an
\* attribute of its own under these names (the assignments are to
\* CurrencyConverter._cached_rates and CurrencyConverter._cache_timestamp),
\* so every instance reads the class attribute, whoever stored it
SelfAttr(self, stored_by, class_attr) == class_attr

\* the condition of the cache check of _get_exchange_rates
CacheValid(c_rates, c_timestamp, current_time) ==
    /\ c_rates # None
    /\ c_timestamp # None
    /\ (current_time - c_timestamp.val) < _CACHE_DURATION

\* the try block keeping every code of the response
FetchRates_all_codes(resp) ==
    LET fail == [exc |-> Raise("ExchangeRateUnavailable"), table |-> NoRates]
        missing_currencies == {code \in CurrencyCodes : code \notin DOMAIN resp.rates}
    IN  IF resp.kind \in {"Timeout", "ConnectionError", "RequestException", "HTTPError"}
        THEN fail
        ELSE IF resp.kind = "InvalidJSON" THEN fail
        ELSE IF resp.kind = "NotObject"
             THEN [exc |-> Raise("AttributeError"), table |-> NoRates]
        ELSE IF resp.result # "success" THEN fail
        ELSE IF resp.shape = "null" THEN fail
        ELSE IF resp.shape \in {"absent", "list"} THEN fail
        ELSE IF missing_currencies # {} THEN fail
        ELSE IF \E code \in CurrencyCodes : resp.rates[code] = NoNum THEN fail
        ELSE [exc |-> NoRaise,
              table |-> resp.rates]

\* The try block of _get_exchange_rates after the cache check, with its
\* except clauses: exc is the exception that leaves the method, and table
\* is the dict built for the cache when there is none.
FetchRates(resp) ==
    LET fail == [exc |-> Raise("ExchangeRateUnavailable"), table |-> NoRates]
        missing_currencies == {code \in CurrencyCodes : code \notin DOMAIN resp.rates}
    IN  IF resp.kind \in {"Timeout", "ConnectionError", "RequestException", "HTTPError"}
        THEN fail
        ELSE IF resp.kind = "InvalidJSON" THEN fail
        ELSE IF resp.kind = "NotObject"
             THEN [exc |-> Raise("AttributeError"), table |-> NoRates]
        ELSE IF resp.result # "success" THEN fail
        ELSE IF resp.shape = "null" THEN fail
        ELSE IF resp.shape \in {"absent", "list"} THEN fail
        ELSE IF missing_currencies # {} THEN fail
        ELSE IF \E code \in CurrencyCodes : resp.rates[code] = NoNum THEN fail
        ELSE [exc |-> NoRaise,
              table |-> [code \in CurrencyCodes |-> resp.rates[code]]]

\* _get_exchange_rates that stamps the cache only when it is first filled
_get_exchange_rates_first_stamp(resp, current_time, c_rates, c_timestamp) ==
    IF CacheValid(c_rates, c_timestamp, current_time)
    THEN [exc |-> NoRaise, rates |-> c_rates.val, requests |-> 0,
          cached_rates |-> c_rates, cache_timestamp |-> c_timestamp]
    ELSE LET f == FetchRates(resp)
         IN  IF f.exc.kind # "none"
             THEN [exc |-> f.exc, rates |-> NoRates, requests |-> 1,
                   cached_rates |-> c_rates, cache_timestamp |-> c_timestamp]
             ELSE [exc |-> NoRaise, rates |-> f.table, requests |-> 1,
                   cached_rates |-> Some(f.table),
                   cache_timestamp |-> IF c_timestamp = None
                                       THEN Some(current_time)
                                       ELSE c_timestamp]

\* CurrencyConverter._get_exchange_rates, run without interruption:
\* the exception or the table returned, the number of requests sent and
\* the class attributes it leaves behind
_get_exchange_rates(resp, current_time, c_rates, c_timestamp) ==
    IF CacheValid(c_rates, c_timestamp, current_time)
    THEN [exc |-> NoRaise, rates |-> c_rates.val, requests |-> 0,
          cached_rates |-> c_rates, cache_timestamp |-> c_timestamp]
    ELSE LET f == FetchRates(resp)
         IN  IF f.exc.kind # "none"
             THEN [exc |-> f.exc, rates |-> NoRates, requests |-> 1,
                   cached_rates |-> c_rates, cache_timestamp |-> c_timestamp]
             ELSE [exc |-> NoRaise, rates |-> f.table, requests |-> 1,
                   cached_rates |-> Some(f.table),
                   cache_timestamp |-> Some(current_time)]

\* the two steps with the second one multiplying by the table's entry of the
\* target even when the target is the base currency
ConvertWithRates_base_entry(value, from_currency, to_currency, rates) ==
    IF from_currency # _BASE_CURRENCY /\ from_currency \notin DOMAIN rates
    THEN Raise("KeyError")
    ELSE IF from_currency # _BASE_CURRENCY /\ RIsZero(rates[from_currency])
    THEN Raise("ZeroDivisionError")
    ELSE IF to_currency \notin DOMAIN rates
    THEN Raise("KeyError")
    ELSE LET value_in_usd == IF from_currency = _BASE_CURRENCY THEN value
                             ELSE RDiv(value, rates[from_currency])
         IN  Ok(RMul(value_in_usd, rates[to_currency]))

\* the two steps of CurrencyConverter.convert after the rates are known
ConvertWithRates(value, from_currency, to_currency, rates) ==
    IF from_currency # _BASE_CURRENCY /\ from_currency \notin DOMAIN rates
    THEN Raise("KeyError")
    ELSE IF from_currency # _BASE_CURRENCY /\ RIsZero(rates[from_currency])
    THEN Raise("ZeroDivisionError")
    ELSE IF to_currency # _BASE_CURRENCY /\ to_currency \notin DOMAIN rates
    THEN Raise("KeyError")
    ELSE LET value_in_usd == IF from_currency = _BASE_CURRENCY THEN value
                             ELSE RDiv(value, rates[from_currency])
         IN  IF to_currency = _BASE_CURRENCY THEN Ok(value_in_usd)
             ELSE Ok(RMul(value_in_usd, rates[to_currency]))

\* convert that obtains the rate table before it looks at the units
CurrencyConverter_convert_rates_first(value, from_unit, to_unit, resp, current_time, c_rates, c_timestamp) ==
    LET e1 == validate_unit(CurrencyConverter_units, from_unit)
        e2 == validate_unit(CurrencyConverter_units, to_unit)
        r == _get_exchange_rates(resp, current_time, c_rates, c_timestamp)
    IN  [outcome |-> IF r.exc.kind # "none" THEN r.exc
                     ELSE IF e1.kind # "none" THEN e1
                     ELSE IF e2.kind # "none" THEN e2
                     ELSE IF from_unit = to_unit THEN Ok(value)
                     ELSE ConvertWithRates(value, _parse_unit(from_unit),
                                           _parse_unit(to_unit), r.rates),
         requests |-> r.requests,
         cached_rates |-> r.cached_rates,
         cache_timestamp |-> r.cache_timestamp]

\* CurrencyConverter.convert: its outcome, the requests it sent and the
\* cache it leaves
CurrencyConverter_convert(value, from_unit, to_unit, resp, current_time, c_rates, c_timestamp) ==
    LET e1 == validate_unit(CurrencyConverter_units, from_unit)
        e2 == validate_unit(CurrencyConverter_units, to_unit)
        untouched(o) == [outcome |-> o, requests |-> 0,
                         cached_rates |-> c_rates,
                         cache_timestamp |-> c_timestamp]
    IN  IF e1.kind # "none" THEN untouched(e1)
        ELSE IF e2.kind # "none" THEN untouched(e2)
        ELSE IF from_unit = to_unit THEN untouched(Ok(value))
        ELSE LET from_currency == _parse_unit(from_unit)
                 to_currency == _parse_unit(to_unit)
                 r == _get_exchange_rates(resp, current_time, c_rates, c_timestamp)
             IN  [outcome |-> IF r.exc.kind # "none" THEN r.exc
                              ELSE ConvertWithRates(value, from_currency,
                                                    to_currency, r.rates),
                  requests |-> r.requests,
                  cached_rates |-> r.cached_rates,
                  cache_timestamp |-> r.cache_timestamp]

-----------------------------------------------------------------------------
(* core/registry.py                                                        *)

\* a converter object: its class and which instance of the class it is
Instance(cls, id) == [cls |-> cls, id |-> id]
NoConverter == Instance("none", 0)

\* the name property of a converter object
ConverterName(converter) ==
    CASE converter.cls = "LengthConverter" -> LengthConverter_name
      [] converter.cls = "WeightConverter" -> WeightConverter_name
      [] converter.cls = "TemperatureConverter" -> TemperatureConverter_name
      [] converter.cls = "DataUnitConverter" -> DataUnitConverter_name
      [] converter.cls = "BatteryConverter" -> BatteryConverter_name
      [] converter.cls = "CurrencyConverter" -> CurrencyConverter_name

\* "name in self._converters"
has_converter(dict, name) == HasKey(dict, name)

\* a deletion that drops the newest entry, whatever the name
DictDel_last(dict, name) == SubSeq(dict, 1, Len(dict) - 1)

\* "del self._converters[name]"
DictDel(dict, name) == SelectSeq(dict, LAMBDA item : item[1] # name)

\* each registry method: the exception it raises ("none" when it returns),
\* the value it returns and the dict it leaves
RegResult(exc, result, dict) == [exc |-> exc, result |-> result, converters |-> dict]

\* register without the duplicate check: the assignment replaces the entry
register_overwrite(dict, converter) ==
    IF has_converter(dict, ConverterName(converter))
    THEN RegResult("none", NoConverter,
                   [i \in 1..Len(dict) |->
                       IF dict[i][1] = ConverterName(converter)
                       THEN <<ConverterName(converter), converter>> ELSE dict[i]])
    ELSE RegResult("none", NoConverter,
                   Append(dict, <<ConverterName(converter), converter>>))

register(dict, converter) ==
    IF has_converter(dict, ConverterName(converter))
    THEN RegResult("DuplicateName", NoConverter, dict)
    ELSE RegResult("none", NoConverter,
                   Append(dict, <<ConverterName(converter), converter>>))

\* a lookup that returns nothing instead of raising, as dict.get does
get_converter_default(dict, name) ==
    IF ~has_converter(dict, name)
    THEN RegResult("none", NoConverter, dict)
    ELSE RegResult("none", DictGet(dict, name), dict)

get_converter(dict, name) ==
    IF ~has_converter(dict, name)
    THEN RegResult("NotFound", NoConverter, dict)
    ELSE RegResult("none", DictGet(dict, name), dict)

unregister(dict, name) ==
    IF ~has_converter(dict, name)
    THEN RegResult("NotFound", NoConverter, dict)
    ELSE RegResult("none", NoConverter, DictDel(dict, name))

\* a clear that leaves the entries in place
clear_keep(dict) == RegResult("none", NoConverter, dict)

clear(dict) == RegResult("none", NoConverter, <<>>)

get_all_converters(dict) == [i \in 1..Len(dict) |-> dict[i][2]]
get_converter_names(dict) == DictKeys(dict)

-----------------------------------------------------------------------------
(* Bounds and inputs                                                       *)

\* the clock stops advancing here
MaxTime == 601
\* how many objects of one converter class exist
MaxInstances == 2
\* how many distinct fetches the threads complete between them
MaxFetches == 3

\* between two calls no time passes, or just under, exactly or just over the
\* cache duration
TickSteps == {0, _CACHE_DURATION - 1, _CACHE_DURATION, _CACHE_DURATION + 1}

Values == {Num(-40), Num(100)}
CurrencyValues == {Num(100), Num(700)}
\* the freezing and boiling points of water, the point where the Celsius and
\* Fahrenheit scales meet, and absolute zero in degrees Celsius
TemperatureValues == {Num(0), Num(100), Num(-40), Frac(-27315, 100)}
DataUnitValues == {Num(1), Num(100)}
BatteryValues == {Num(1000), Num(30)}

\* the CurrencyConverter objects of the process
NoInstance == 0
CurrencyInstances == 1..MaxInstances

\* labels no converter supports (the bare code is not a currency label)
InvalidLabels == {U("INVALID"), U("USD")}

\* the currency labels used in calls
CurrencyCallUnits ==
    {CurrencyConverter_units[i] : i \in 1..4} \cup InvalidLabels

\* the voltage is omitted, the default passed explicitly, another positive
\* one, zero or negative
Voltages == {NoNum, Frac(37, 10), Num(12), Num(0), Num(-1)}

MakeRates(items) == [code \in ListSet(DictKeys(items)) |-> DictGet(items, code)]

\* the table of the test suite's mocked response, with a code that is not
\* configured
Rates1 ==
    MakeRates(<< <<"USD", Num(1)>>, <<"CNY", Num(7)>>, <<"EUR", Frac(85, 100)>>,
                 <<"JPY", Num(110)>>, <<"GBP", Frac(73, 100)>>,
                 <<"KRW", Num(1180)>>, <<"HKD", Frac(78, 10)>>,
                 <<"AUD", Frac(135, 100)>>, <<"CAD", Frac(125, 100)>>,
                 <<"SGD", Frac(135, 100)>>, <<"CHF", Frac(9, 10)>> >>)

\* other rates, with an entry for the base currency that is not 1 and a
\* rate of 0
Rates2 ==
    MakeRates(<< <<"USD", Num(2)>>, <<"CNY", Frac(72, 10)>>, <<"EUR", Frac(9, 10)>>,
                 <<"JPY", Num(0)>>, <<"GBP", Frac(8, 10)>>,
                 <<"KRW", Num(1300)>>, <<"HKD", Frac(78, 10)>>,
                 <<"AUD", Frac(15, 10)>>, <<"CAD", Frac(14, 10)>>,
                 <<"SGD", Frac(13, 10)>> >>)

Restrict(f, S) == [x \in S |-> f[x]]

Responses ==
    { Response("Timeout", "absent", "absent", NoRates),
      Response("ConnectionError", "absent", "absent", NoRates),
      Response("RequestException", "absent", "absent", NoRates),
      Response("HTTPError", "absent", "absent", NoRates),
      Response("InvalidJSON", "absent", "absent", NoRates),
      Response("NotObject", "absent", "absent", NoRates),
      Response("Object", "error", "mapping", Rates2),
      Response("Object", "absent", "mapping", Rates2),
      Response("Object", "success", "absent", NoRates),
      Response("Object", "success", "null", NoRates),
      Response("Object", "success", "list", NoRates),
      Response("Object", "success", "mapping", Rates1),
      Response("Object", "success", "mapping", Rates2),
      Response("Object", "success", "mapping", Restrict(Rates2, {"USD", "CNY"})),
      Response("Object", "success", "mapping", Restrict(Rates2, CurrencyCodes \ {"SGD"})),
      Response("Object", "success", "mapping", [Rates2 EXCEPT !["EUR"] = NoNum]) }

RegistryClasses == {"LengthConverter", "TemperatureConverter", "BatteryConverter"}
RegistryInstances ==
    {Instance(cls, id) : cls \in RegistryClasses, id \in 1..MaxInstances}
RegistryNames ==
    {ConverterName(c) : c \in RegistryInstances} \cup {"Temperature"}

-----------------------------------------------------------------------------
(* ui/main_window.py, with the converters main.py registers                *)

\* the converters main registers, in the order of registration
MainConverters ==
    <<"LengthConverter", "TemperatureConverter", "WeightConverter",
      "BatteryConverter">>

\* "self.current_converter.units"
UnitsOf(cls) ==
    CASE cls = "LengthConverter" -> LengthConverter_units
      [] cls = "TemperatureConverter" -> TemperatureConverter_units
      [] cls = "WeightConverter" -> WeightConverter_units
      [] cls = "BatteryConverter" -> BatteryConverter_units

\* "hasattr(self.current_converter, 'parameters') and
\*  self.current_converter.parameters": only the battery converter has any
HasParameters(cls) == cls = "BatteryConverter"

\* the default of the voltage field, BatteryConverter.parameters
VoltageDefaultText == "3.7"

\* the text of a field that is not shown
NoField == "(hidden)"

\* str.strip on the texts the fields hold
Strip(text) ==
    CASE text = " " -> ""
      [] text = " 30 " -> "30"
      [] OTHER -> text

\* float(text): the number, or None where float raises its ValueError
ParseFloat(text) ==
    CASE text = "30" -> Some(Num(30))
      [] text = "1000" -> Some(Num(1000))
      [] text = "3.7" -> Some(Frac(37, 10))
      [] text = "12" -> Some(Num(12))
      [] text = "0" -> Some(Num(0))
      [] text = "-1" -> Some(Num(-1))
      [] OTHER -> None

\* "self.current_converter.convert(value, from_unit, to_unit, **kwargs)"
current_converter_convert(cls, value, from_unit, to_unit, kwargs) ==
    CASE cls = "LengthConverter" -> LengthConverter_convert(value, from_unit, to_unit)
      [] cls = "TemperatureConverter" -> TemperatureConverter_convert(value, from_unit, to_unit)
      [] cls = "WeightConverter" -> WeightConverter_convert(value, from_unit, to_unit)
      [] cls = "BatteryConverter" -> ParameterizedConverter_convert(value, from_unit, to_unit, kwargs)

\* the exceptions of the converters that are a ValueError
IsValueError(outcome) ==
    outcome.kind \in {"UnsupportedUnit", "InvalidParameter", "UnknownUnit",
                      "ExchangeRateUnavailable"}

\* 'str(e).startswith("Unsupported unit")': of the messages of the
\* converters only the one of validate_unit starts so
StartsWithUnsupportedUnit(outcome) == outcome.kind = "UnsupportedUnit"

\* the window: to_value_var is "" , "Invalid input" or "formatted" for the
\* formatted result (its digits are left out); status_var is the kind of the
\* text shown; messagebox is what the last handler showed, "showerror" or
\* "none"; called and outcome tell whether the last handler called convert
\* and how that call ended
Window(current_converter, from_value_var, to_value_var, from_unit_var, to_unit_var, voltage_var, status_var, messagebox, called, outcome) ==
    [current_converter |-> current_converter,
     from_value_var |-> from_value_var, to_value_var |-> to_value_var,
     from_unit_var |-> from_unit_var, to_unit_var |-> to_unit_var,
     voltage_var |-> voltage_var, status_var |-> status_var,
     messagebox |-> messagebox, called |-> called, outcome |-> outcome]

\* "except ValueError as e" for a ValueError raised before convert is called
\* or by it, and "except Exception as e"
ShowUnsupportedUnit(w, called, outcome) ==
    [w EXCEPT !.messagebox = "showerror", !.called = called, !.outcome = outcome]
ShowInvalidInput(w, called, outcome) ==
    [w EXCEPT !.to_value_var = "Invalid input", !.status_var = "message",
              !.called = called, !.outcome = outcome]
ShowConversionFailed(w, outcome) ==
    [w EXCEPT !.messagebox = "showerror", !.status_var = "Conversion failed",
              !.called = TRUE, !.outcome = outcome]

\* the end of the try block and the except clauses of _perform_conversion,
\* for the outcome of the call of convert
ShowOutcome(w, result) ==
    IF result.kind = "ok"
    THEN [w EXCEPT !.to_value_var = "formatted",
                   !.status_var = "Conversion successful",
                   !.called = TRUE, !.outcome = result]
    ELSE IF IsValueError(result)
         THEN IF StartsWithUnsupportedUnit(result)
              THEN ShowUnsupportedUnit(w, TRUE, result)
              ELSE ShowInvalidInput(w, TRUE, result)
    ELSE ShowConversionFailed(w, result)

\* the call of convert with the number of the value field and, where the
\* converter has parameters and the voltage field is not empty, its number
ConvertFields(w, value, voltage) ==
    current_converter_convert(
        w.current_converter, value.val, w.from_unit_var, w.to_unit_var,
        IF HasParameters(w.current_converter) /\ voltage # None
        THEN Kwargs(voltage.val, FALSE) ELSE NoKwargs)

\* MainWindow._perform_conversion, for a window that has a current converter
_perform_conversion(win) ==
    LET w == [win EXCEPT !.messagebox = "none", !.called = FALSE, !.outcome = NoRaise]
        value_str == Strip(w.from_value_var)
        param_str == Strip(w.voltage_var)
        params == HasParameters(w.current_converter)
    IN  IF value_str = "" THEN [w EXCEPT !.to_value_var = ""]
        ELSE IF ~ParseFloat(value_str).some THEN ShowInvalidInput(w, FALSE, NoRaise)
        ELSE IF w.from_unit_var = NoUnit \/ w.to_unit_var = NoUnit THEN w
        ELSE IF params /\ param_str # "" /\ ~ParseFloat(param_str).some
             THEN ShowInvalidInput(w, FALSE, NoRaise)
        ELSE ShowOutcome(w, ConvertFields(w, ParseFloat(value_str), ParseFloat(param_str)))

\* MainWindow._on_converter_changed for a name the registry holds
_on_converter_changed(win, cls) ==
    LET units == UnitsOf(cls)
    IN  Window(cls, "", "",
               IF Len(units) > 0 THEN units[1] ELSE win.from_unit_var,
               IF Len(units) > 1 THEN units[2]
               ELSE IF Len(units) > 0 THEN units[1] ELSE win.to_unit_var,
               IF HasParameters(cls) THEN VoltageDefaultText ELSE NoField,
               "Selected", "none", FALSE, NoRaise)

\* the window as __init__ leaves it: _initialize_converter selects the first
\* name of the registry
InitialWindow ==
    _on_converter_changed(
        Window("none", "", "", NoUnit, NoUnit, NoField, "Ready", "none", FALSE, NoRaise),
        MainConverters[1])

\* what the user types into the value field and into the voltage field
ValueTexts == {"", " ", "abc", "30", " 30 ", "1000"}
VoltageTexts == {"", "abc", "3.7", "12", "0", "-1"}

-----------------------------------------------------------------------------
(* State machine                                                           *)

\* requests counts the requests.get calls of the call, resp is the answer to
\* the request, pre_rates and pre_timestamp are the cache before the call and
\* prev is lastRateCall before the call
Call(conv, value, from_unit, to_unit, kwargs, outcome, requests, resp, pre_rates, pre_timestamp, prev) ==
    [conv |-> conv, value |-> value, from_unit |-> from_unit,
     to_unit |-> to_unit, kwargs |-> kwargs, outcome |-> outcome,
     requests |-> requests, resp |-> resp,
     pre_rates |-> pre_rates, pre_timestamp |-> pre_timestamp, prev |-> prev]

\* no convert call has returned in the last step
NoCall == Call("none", NoNum, NoUnit, NoUnit, NoKwargs, NoRaise, 0,
               NoResponse, None, None, "none")

\* a successful fetch: the table built from the response and the
\* current_time of the call
Fetch(table, time) == [table |-> table, time |-> time]

\* pre is the dict before the operation, found what has_converter returned
RegCall(op, name, converter, exc, result, found, pre) ==
    [op |-> op, name |-> name, converter |-> converter, exc |-> exc,
     result |-> result, found |-> found, pre |-> pre]
NoRegCall == RegCall("none", "", NoConverter, "none", NoConverter, FALSE, <<>>)

cacheVars == <<cached_rates, cache_timestamp, now, lastRateCall, lastFetch, instances>>
registryVars == <<converters, regCall, registered>>
threadVars == <<threads, fetches>>

\* the two threads that call CurrencyConverter.convert concurrently
Threads == {1, 2}

\* the local variables of a thread inside convert and _get_exchange_rates:
\* table is the dict built from the response, rates the dict that
\* _get_exchange_rates returned; outcome is that of the thread's last call
Locals(pc, value, from_unit, to_unit, current_time, table, rates, outcome) ==
    [pc |-> pc, value |-> value, from_unit |-> from_unit, to_unit |-> to_unit,
     current_time |-> current_time, table |-> table, rates |-> rates,
     outcome |-> outcome]
Idle == Locals("idle", NoNum, NoUnit, NoUnit, 0, None, None, NoRaise)

Init ==
    /\ cached_rates = None
    /\ cache_timestamp = None
    /\ now = 0
    /\ lastCall = NoCall
    /\ converters = <<>>
    /\ regCall = NoRegCall
    /\ registered = [name \in RegistryNames |-> NoConverter]
    /\ lastRateCall = "none"
    /\ lastFetch = None
    /\ threads = [t \in Threads |-> Idle]
    /\ fetches = {}
    /\ ui = InitialWindow
    /\ instances = [self |-> NoInstance, stored_by |-> NoInstance]

\* the caller takes the result of the call, and time passes until it calls
\* again
Tick ==
    /\ \E d \in TickSteps : now + d <= MaxTime /\ now' = now + d
    /\ lastCall' = NoCall
    /\ instances' = [instances EXCEPT !.self = NoInstance]
    /\ UNCHANGED <<cached_rates, cache_timestamp, lastRateCall, lastFetch,
                   registryVars, threadVars, ui>>

\* a call of a converter that keeps no state
PureCall(conv, value, from_unit, to_unit, kwargs, outcome) ==
    /\ lastCall = NoCall
    /\ lastCall' = Call(conv, value, from_unit, to_unit, kwargs, outcome, 0,
                        NoResponse, cached_rates, cache_timestamp, lastRateCall)
    /\ UNCHANGED <<cacheVars, registryVars, threadVars, ui>>

ConvertLength ==
    \E value \in Values, from_unit, to_unit \in ListSet(LengthConverter_units) \cup InvalidLabels :
        PureCall("LengthConverter", value, from_unit, to_unit, NoKwargs,
                 LengthConverter_convert(value, from_unit, to_unit))

ConvertWeight ==
    \E value \in Values, from_unit, to_unit \in ListSet(WeightConverter_units) \cup InvalidLabels :
        PureCall("WeightConverter", value, from_unit, to_unit, NoKwargs,
                 WeightConverter_convert(value, from_unit, to_unit))

ConvertTemperature ==
    \E value \in TemperatureValues, from_unit, to_unit \in ListSet(TemperatureConverter_units) \cup InvalidLabels :
        PureCall("TemperatureConverter", value, from_unit, to_unit, NoKwargs,
                 TemperatureConverter_convert(value, from_unit, to_unit))

ConvertDataUnit ==
    \E value \in DataUnitValues, from_unit, to_unit \in ListSet(DataUnitConverter_units) \cup InvalidLabels :
        PureCall("DataUnitConverter", value, from_unit, to_unit, NoKwargs,
                 DataUnitConverter_convert(value, from_unit, to_unit))

ConvertBattery ==
    \E value \in BatteryValues, from_unit, to_unit \in ListSet(BatteryConverter_units) \cup InvalidLabels,
       voltage \in Voltages, extra \in BOOLEAN :
        PureCall("BatteryConverter", value, from_unit, to_unit,
                 Kwargs(voltage, extra),
                 ParameterizedConverter_convert(value, from_unit, to_unit,
                                                Kwargs(voltage, extra)))

\* a currency conversion in a single thread; resp is what the rate service
\* answers if it is asked
ConvertCurrency ==
    /\ lastCall = NoCall
    /\ \E value \in CurrencyValues, from_unit, to_unit \in CurrencyCallUnits,
       resp \in Responses, self \in CurrencyInstances :
        LET c == CurrencyConverter_convert(value, from_unit, to_unit, resp, now,
                                           SelfAttr(self, instances.stored_by, cached_rates),
                                           SelfAttr(self, instances.stored_by, cache_timestamp))
        IN  /\ cached_rates' = c.cached_rates
            /\ cache_timestamp' = c.cache_timestamp
            /\ lastCall' = Call("CurrencyConverter", value, from_unit, to_unit,
                                NoKwargs, c.outcome, c.requests,
                                IF c.requests = 0 THEN NoResponse ELSE resp,
                                cached_rates, cache_timestamp, lastRateCall)
            /\ lastRateCall' =
                   IF from_unit = to_unit
                      \/ ~InList(from_unit, CurrencyConverter_units)
                      \/ ~InList(to_unit, CurrencyConverter_units)
                   THEN lastRateCall
                   ELSE IF c.outcome.kind = "ExchangeRateUnavailable"
                        THEN "failed" ELSE "other"
            /\ lastFetch' =
                   IF c.requests = 1 /\ FetchRates(resp).exc.kind = "none"
                   THEN Some(Fetch(FetchRates(resp).table, now))
                   ELSE lastFetch
            /\ instances' =
                   [self |-> self,
                    stored_by |-> IF c.requests = 1 /\ FetchRates(resp).exc.kind = "none"
                                  THEN self ELSE instances.stored_by]
            /\ UNCHANGED <<now, registryVars, threadVars, ui>>

Next ==
    \/ Tick
    \/ ConvertLength
    \/ ConvertWeight
    \/ ConvertTemperature
    \/ ConvertDataUnit
    \/ ConvertBattery
    \/ ConvertCurrency

Spec == Init /\ [][Next]_vars

-----------------------------------------------------------------------------
(* The converters that keep no state, on their own                         *)

ConvertersNext ==
    \/ Tick
    \/ ConvertLength
    \/ ConvertWeight
    \/ ConvertTemperature
    \/ ConvertDataUnit
    \/ ConvertBattery

ConvertersSpec == Init /\ [][ConvertersNext]_vars

-----------------------------------------------------------------------------
(* The registry on its own                                                 *)

Register ==
    \E converter \in RegistryInstances :
        LET r == register(converters, converter)
        IN  /\ converters' = r.converters
            /\ regCall' = RegCall("register", ConverterName(converter), converter,
                                  r.exc, r.result, FALSE, converters)
            /\ registered' = IF r.exc = "none"
                             THEN [registered EXCEPT ![ConverterName(converter)] = converter]
                             ELSE registered
            /\ UNCHANGED <<cacheVars, lastCall, ui, threadVars>>

GetConverter ==
    \E name \in RegistryNames :
        LET r == get_converter(converters, name)
        IN  /\ converters' = r.converters
            /\ regCall' = RegCall("get_converter", name, NoConverter, r.exc,
                                  r.result, FALSE, converters)
            /\ UNCHANGED <<cacheVars, lastCall, ui, registered, threadVars>>

HasConverter ==
    \E name \in RegistryNames :
        /\ regCall' = RegCall("has_converter", name, NoConverter, "none",
                              NoConverter, has_converter(converters, name),
                              converters)
        /\ UNCHANGED <<cacheVars, lastCall, ui, converters, registered, threadVars>>

Unregister ==
    \E name \in RegistryNames :
        LET r == unregister(converters, name)
        IN  /\ converters' = r.converters
            /\ regCall' = RegCall("unregister", name, NoConverter, r.exc,
                                  r.result, FALSE, converters)
            /\ registered' = IF r.exc = "none"
                             THEN [registered EXCEPT ![name] = NoConverter]
                             ELSE registered
            /\ UNCHANGED <<cacheVars, lastCall, ui, threadVars>>

Clear ==
    LET r == clear(converters)
    IN  /\ converters' = r.converters
        /\ regCall' = RegCall("clear", "", NoConverter, r.exc, r.result, FALSE,
                              converters)
        /\ registered' = [name \in RegistryNames |-> NoConverter]
        /\ UNCHANGED <<cacheVars, lastCall, ui, threadVars>>

RegistryNext ==
    \/ Register
    \/ GetConverter
    \/ HasConverter
    \/ Unregister
    \/ Clear

RegistrySpec == Init /\ [][RegistryNext]_vars

-----------------------------------------------------------------------------
(* CurrencyConverter.convert in two threads, one access to the class       *)
(* attributes per step                                                     *)

\* the labels and the answers of the rate service used by the threads
ThreadCallUnits ==
    {CurrencyConverter_units[2], CurrencyConverter_units[1], U("INVALID")}
ThreadResponses ==
    { Response("Timeout", "absent", "absent", NoRates),
      Response("Object", "success", "mapping", Rates1),
      Response("Object", "success", "mapping", Rates2) }

\* an assignment that overwrites the entries of the cached dict one half at
\* a time
SetCachedRates_update(c_rates, table) ==
    IF c_rates = None THEN Some(table)
    ELSE Some([code \in CurrencyCodes |->
                 IF code \in {"USD", "CNY", "EUR", "JPY", "GBP"}
                 THEN table[code] ELSE c_rates.val[code]])

\* "CurrencyConverter._cached_rates = {...}": the attribute is bound to the
\* new dict
SetCachedRates(c_rates, table) == Some(table)

\* the return of convert with the dict _get_exchange_rates returned
ThreadReturn(t, rates) ==
    threads' = [threads EXCEPT ![t] =
        Locals("idle", @.value, @.from_unit, @.to_unit, 0, @.table, rates,
               ConvertWithRates(@.value, _parse_unit(@.from_unit),
                                _parse_unit(@.to_unit), rates.val))]

\* convert is called: the units are validated, equal units return the
\* value, and _get_exchange_rates reads the clock
ThreadConvert(t) ==
    /\ threads[t].pc = "idle"
    /\ \E from_unit, to_unit \in ThreadCallUnits :
          LET value == Num(100)
              e1 == validate_unit(CurrencyConverter_units, from_unit)
              e2 == validate_unit(CurrencyConverter_units, to_unit)
              return(outcome) ==
                  Locals("idle", value, from_unit, to_unit, 0, None, None, outcome)
          IN  threads' = [threads EXCEPT ![t] =
                  IF e1.kind # "none" THEN return(e1)
                  ELSE IF e2.kind # "none" THEN return(e2)
                  ELSE IF from_unit = to_unit THEN return(Ok(value))
                  ELSE Locals("check_rates", value, from_unit, to_unit, now,
                              None, None, NoRaise)]
    /\ UNCHANGED <<cacheVars, lastCall, ui, registryVars, fetches>>

\* "self._cached_rates is not None"
CheckRates(t) ==
    /\ threads[t].pc = "check_rates"
    /\ threads' = [threads EXCEPT ![t].pc =
          IF cached_rates # None THEN "check_timestamp" ELSE "request"]
    /\ UNCHANGED <<cacheVars, lastCall, ui, registryVars, fetches>>

\* "self._cache_timestamp is not None and
\*  (current_time - self._cache_timestamp) < self._CACHE_DURATION"
CheckTimestamp(t) ==
    /\ threads[t].pc = "check_timestamp"
    /\ threads' = [threads EXCEPT ![t].pc =
          IF /\ cache_timestamp # None
             /\ (threads[t].current_time - cache_timestamp.val) < _CACHE_DURATION
          THEN "return_cached" ELSE "request"]
    /\ UNCHANGED <<cacheVars, lastCall, ui, registryVars, fetches>>

\* "return self._cached_rates", and the arithmetic of convert
ReturnCached(t) ==
    /\ threads[t].pc = "return_cached"
    /\ ThreadReturn(t, cached_rates)
    /\ UNCHANGED <<cacheVars, lastCall, ui, registryVars, fetches>>

\* the request and the checks of the response, up to the dict built for the
\* cache
Request(t) ==
    /\ threads[t].pc = "request"
    /\ \E resp \in ThreadResponses :
          LET f == FetchRates(resp)
          IN  IF f.exc.kind # "none"
              THEN /\ threads' = [threads EXCEPT ![t] =
                         Locals("idle", @.value, @.from_unit, @.to_unit, 0,
                                None, None, f.exc)]
                   /\ UNCHANGED fetches
              ELSE /\ fetches' = fetches \cup
                                    {Fetch(f.table, threads[t].current_time)}
                   /\ Cardinality(fetches') <= MaxFetches
                   /\ threads' = [threads EXCEPT ![t].pc = "store_rates",
                                                 ![t].table = Some(f.table)]
    /\ UNCHANGED <<cacheVars, lastCall, ui, registryVars>>

\* "CurrencyConverter._cached_rates = {...}"
StoreRates(t) ==
    /\ threads[t].pc = "store_rates"
    /\ cached_rates' = SetCachedRates(cached_rates, threads[t].table.val)
    /\ threads' = [threads EXCEPT ![t].pc = "store_timestamp"]
    /\ UNCHANGED <<cache_timestamp, now, lastRateCall, lastFetch, instances, lastCall, ui,
                   registryVars, fetches>>

\* the timestamp taken from the clock when the response has arrived
StoreTimestamp_arrival(t) ==
    /\ threads[t].pc = "store_timestamp"
    /\ cache_timestamp' = Some(now)
    /\ threads' = [threads EXCEPT ![t].pc = "return_stored"]
    /\ UNCHANGED <<cached_rates, now, lastRateCall, lastFetch, instances, lastCall, ui,
                   registryVars, fetches>>

\* "CurrencyConverter._cache_timestamp = current_time"
StoreTimestamp(t) ==
    /\ threads[t].pc = "store_timestamp"
    /\ cache_timestamp' = Some(threads[t].current_time)
    /\ threads' = [threads EXCEPT ![t].pc = "return_stored"]
    /\ UNCHANGED <<cached_rates, now, lastRateCall, lastFetch, instances, lastCall, ui,
                   registryVars, fetches>>

\* "return CurrencyConverter._cached_rates", and the arithmetic of convert
ReturnStored(t) ==
    /\ threads[t].pc = "return_stored"
    /\ ThreadReturn(t, cached_rates)
    /\ UNCHANGED <<cacheVars, lastCall, ui, registryVars, fetches>>

ThreadNext ==
    \/ Tick
    \/ \E t \in Threads : ThreadConvert(t)
    \/ \E t \in Threads : CheckRates(t)
    \/ \E t \in Threads : CheckTimestamp(t)
    \/ \E t \in Threads : ReturnCached(t)
    \/ \E t \in Threads : Request(t)
    \/ \E t \in Threads : StoreRates(t)
    \/ \E t \in Threads : StoreTimestamp(t)
    \/ \E t \in Threads : ReturnStored(t)

ThreadSpec == Init /\ [][ThreadNext]_vars

-----------------------------------------------------------------------------
(* One thread on its own, the clock advancing between its steps            *)

MainThread == 1

SingleThreadNext ==
    \/ Tick
    \/ ThreadConvert(MainThread)
    \/ CheckRates(MainThread)
    \/ CheckTimestamp(MainThread)
    \/ ReturnCached(MainThread)
    \/ Request(MainThread)
    \/ StoreRates(MainThread)
    \/ StoreTimestamp(MainThread)
    \/ ReturnStored(MainThread)

SingleThreadSpec == Init /\ [][SingleThreadNext]_vars

-----------------------------------------------------------------------------
(* The window on its own                                                   *)

\* the user selects a converter in the combobox
OnConverterChanged ==
    /\ \E i \in 1..Len(MainConverters) :
           ui' = _on_converter_changed(ui, MainConverters[i])
    /\ UNCHANGED <<cacheVars, lastCall, registryVars, threadVars>>

\* the user selects a unit in one of the two read-only comboboxes:
\* _on_unit_changed
OnUnitChanged ==
    /\ \E from_unit, to_unit \in ListSet(UnitsOf(ui.current_converter)) :
           /\ from_unit = ui.from_unit_var \/ to_unit = ui.to_unit_var
           /\ ui' = _perform_conversion([ui EXCEPT !.from_unit_var = from_unit,
                                                   !.to_unit_var = to_unit])
    /\ UNCHANGED <<cacheVars, lastCall, registryVars, threadVars>>

\* the user releases a key in the value field: _on_value_changed
OnValueChanged ==
    /\ \E text \in ValueTexts :
           ui' = _perform_conversion([ui EXCEPT !.from_value_var = text])
    /\ UNCHANGED <<cacheVars, lastCall, registryVars, threadVars>>

\* the user releases a key in the voltage field, which is bound to
\* _on_value_changed as well
OnParameterChanged ==
    /\ HasParameters(ui.current_converter)
    /\ \E text \in VoltageTexts :
           ui' = _perform_conversion([ui EXCEPT !.voltage_var = text])
    /\ UNCHANGED <<cacheVars, lastCall, registryVars, threadVars>>

WindowNext ==
    \/ OnConverterChanged
    \/ OnUnitChanged
    \/ OnValueChanged
    \/ OnParameterChanged

WindowSpec == Init /\ [][WindowNext]_vars

-----------------------------------------------------------------------------
(* Properties of the converters (under Spec)                               *)

\* the units property of each converter class, as a set
SupportedUnits(conv) ==
    CASE conv = "LengthConverter" -> ListSet(LengthConverter_units)
      [] conv = "WeightConverter" -> ListSet(WeightConverter_units)
      [] conv = "TemperatureConverter" -> ListSet(TemperatureConverter_units)
      [] conv = "DataUnitConverter" -> ListSet(DataUnitConverter_units)
      [] conv = "BatteryConverter" -> ListSet(BatteryConverter_units)
      [] conv = "CurrencyConverter" -> ListSet(CurrencyConverter_units)
      [] OTHER -> {}

Called == lastCall.conv # "none"
CacheUntouched ==
    /\ cached_rates = lastCall.pre_rates
    /\ cache_timestamp = lastCall.pre_timestamp

\* C1: a convert call of any converter whose from_unit is not among the
\* converter's units, or whose to_unit is not, fails with UnsupportedUnit and
\* returns no number, whatever the other unit is.
C1_UnsupportedUnitFails ==
    (/\ Called
     /\ \/ lastCall.from_unit \notin SupportedUnits(lastCall.conv)
        \/ lastCall.to_unit \notin SupportedUnits(lastCall.conv))
    => /\ lastCall.outcome.kind = "UnsupportedUnit"
       /\ lastCall.outcome.val = NoNum

\* a currency call with a supported from_unit and the bare code as to_unit
C1_Witness ==
    /\ lastCall.conv = "CurrencyConverter"
    /\ lastCall.from_unit \in SupportedUnits("CurrencyConverter")
    /\ lastCall.to_unit = U("USD")
    /\ lastCall.outcome.kind = "UnsupportedUnit"

\* C2: a convert call of any converter with from_unit = to_unit, a supported
\* unit, returns exactly the value passed; no domain formula runs: no
\* parameter is checked, no request is sent and the rate cache is not touched.
C2_IdentityLaw ==
    (/\ Called
     /\ lastCall.from_unit = lastCall.to_unit
     /\ lastCall.from_unit \in SupportedUnits(lastCall.conv))
    => /\ lastCall.outcome = Ok(lastCall.value)
       /\ lastCall.requests = 0
       /\ CacheUntouched

\* a battery call from Wh to Wh with a voltage of 0 returns its value
C2_Witness ==
    /\ lastCall.conv = "BatteryConverter"
    /\ lastCall.from_unit = U("Wh")
    /\ lastCall.to_unit = U("Wh")
    /\ lastCall.kwargs.voltage = Num(0)
    /\ lastCall.outcome = Ok(lastCall.value)

-----------------------------------------------------------------------------
(* Properties of the rate cache (under Spec)                               *)

\* the last step was a currency conversion between two distinct supported
\* units
RateCall ==
    /\ lastCall.conv = "CurrencyConverter"
    /\ lastCall.from_unit \in SupportedUnits("CurrencyConverter")
    /\ lastCall.to_unit \in SupportedUnits("CurrencyConverter")
    /\ lastCall.from_unit # lastCall.to_unit

\* the code at the head of a currency label
CodeOf(unit) == unit[1]

\* a response is usable when it is a JSON object whose result is "success"
\* and whose rates map every configured code to a number
UsableResponse(resp) ==
    /\ resp.kind = "Object"
    /\ resp.result = "success"
    /\ resp.shape = "mapping"
    /\ \A code \in CurrencyCodes :
          code \in DOMAIN resp.rates /\ resp.rates[code] # NoNum

\* the configured part of the rates of a response
ConfiguredRates(resp) == [code \in CurrencyCodes |-> resp.rates[code]]

\* C3: when the cache holds a table with timestamp t and now - t < 600, a
\* currency conversion between two distinct supported units sends no request,
\* leaves the cache as it is and computes its outcome from the cached table.
C3_CacheHit ==
    (/\ RateCall
     /\ lastCall.pre_rates # None
     /\ lastCall.pre_timestamp # None
     /\ now - lastCall.pre_timestamp.val < 600)
    => /\ lastCall.requests = 0
       /\ lastCall.resp = NoResponse
       /\ CacheUntouched
       /\ lastCall.outcome =
             ConvertWithRates(lastCall.value, CodeOf(lastCall.from_unit),
                              CodeOf(lastCall.to_unit), lastCall.pre_rates.val)

\* a conversion 599 seconds after the fetch returns without a request
C3_Witness ==
    /\ RateCall
    /\ lastCall.pre_timestamp # None
    /\ now - lastCall.pre_timestamp.val = 599
    /\ lastCall.requests = 0
    /\ lastCall.outcome.kind = "ok"

C5_FetchFailureKeepsCache ==
    (/\ RateCall
     /\ lastCall.requests = 1
     /\ ~UsableResponse(lastCall.resp))
    => /\ lastCall.outcome.kind = "ExchangeRateUnavailable"
       /\ CacheUntouched

\* C6: a convert call sends at most one request; the currency conversion
\* between two distinct supported units that follows one that failed with
\* ExchangeRateUnavailable sends a request, and returns a number if the
\* response is usable.
C6_NoRetryThenRefetch ==
    /\ Called => lastCall.requests <= 1
    /\ (RateCall /\ lastCall.prev = "failed")
          => /\ lastCall.requests = 1
             /\ UsableResponse(lastCall.resp) => lastCall.outcome.kind = "ok"

\* the rate of the design's formula: the base currency counts as 1
RateOf(table, code) == IF code = "USD" THEN Num(1) ELSE table[code]

-----------------------------------------------------------------------------
(* Properties of the registry (under RegistrySpec)                         *)

\* the name is a key of the dict the operation started from
WasPresent == \E i \in 1..Len(regCall.pre) : regCall.pre[i][1] = regCall.name

\* C8: register of a converter whose name is already registered fails with
\* DuplicateName and changes nothing: same entries in the same order, and the
\* name still maps to the instance registered first.
C8_DuplicateNameRejected ==
    (regCall.op = "register" /\ WasPresent)
    => /\ regCall.exc = "DuplicateName"
       /\ converters = regCall.pre
       /\ \E i \in 1..Len(converters) :
             converters[i] = <<regCall.name, registered[regCall.name]>>

\* a second instance of a registered class is rejected in a registry of three
C8_Witness ==
    /\ regCall.op = "register"
    /\ regCall.exc = "DuplicateName"
    /\ Len(converters) = 3
    /\ registered[regCall.name] # regCall.converter
    /\ registered[regCall.name].cls = regCall.converter.cls

\* C9: get_converter returns the instance stored by the most recent successful
\* register of the name, fails with NotFound when the name was never
\* registered or was unregistered or cleared since, and never changes the
\* registry.
C9_LookupReturnsRegistered ==
    regCall.op = "get_converter"
    => /\ converters = regCall.pre
       /\ IF registered[regCall.name] = NoConverter
          THEN regCall.exc = "NotFound" /\ regCall.result = NoConverter
          ELSE regCall.exc = "none" /\ regCall.result = registered[regCall.name]

\* the lookup finds a second instance, registered after others
C9_Witness ==
    /\ regCall.op = "get_converter"
    /\ regCall.exc = "none"
    /\ regCall.result.id = 2
    /\ Len(converters) = 3
    /\ converters[1][1] # regCall.name

\* C10: unregister of an absent name fails with NotFound and changes nothing;
\* unregister of a present name removes that entry and no other, keeping the
\* order of the rest; afterwards has_converter(name) is false and register
\* of a converter with that name succeeds.
C10_Unregister ==
    regCall.op = "unregister"
    => IF ~WasPresent
       THEN regCall.exc = "NotFound" /\ converters = regCall.pre
       ELSE /\ regCall.exc = "none"
            /\ \E k \in 1..Len(regCall.pre) :
                  /\ regCall.pre[k][1] = regCall.name
                  /\ converters = SubSeq(regCall.pre, 1, k - 1)
                                     \o SubSeq(regCall.pre, k + 1, Len(regCall.pre))
            /\ ~has_converter(converters, regCall.name)
            /\ \A c \in RegistryInstances :
                  ConverterName(c) = regCall.name
                  => /\ register(converters, c).exc = "none"
                     /\ register(converters, c).converters
                           = Append(converters, <<regCall.name, c>>)

\* the middle one of three entries is removed
C10_Witness ==
    /\ regCall.op = "unregister"
    /\ regCall.exc = "none"
    /\ Len(regCall.pre) = 3
    /\ regCall.pre[2][1] = regCall.name
    /\ converters = <<regCall.pre[1], regCall.pre[3]>>

\* C11: after any sequence of register, get_converter, has_converter,
\* unregister and clear, failing or not, the registry holds at most one
\* converter per name: get_converter_names has no duplicate, it has the length
\* of get_all_converters and its i-th name is the name of the i-th converter,
\* and has_converter(n) is true exactly for the names registered successfully
\* and not unregistered or cleared since, each mapped to the instance of that
\* registration.
C11_RegistryInvariant ==
    LET names == get_converter_names(converters)
        all == get_all_converters(converters)
    IN  /\ \A i, j \in 1..Len(names) : names[i] = names[j] => i = j
        /\ Len(names) = Len(all)
        /\ \A i \in 1..Len(all) : ConverterName(all[i]) = names[i]
        /\ \A n \in RegistryNames :
              has_converter(converters, n) <=> registered[n] # NoConverter
        /\ \A n \in RegistryNames :
              has_converter(converters, n)
              => get_converter(converters, n).result = registered[n]

\* a register of a duplicate has just failed in a registry of two
\* converters, a third name being absent
C11_Witness ==
    /\ regCall.op = "register"
    /\ regCall.exc = "DuplicateName"
    /\ Len(converters) = 2
    /\ \E n \in RegistryNames :
          registered[n] = NoConverter /\ ~has_converter(converters, n)

-----------------------------------------------------------------------------
(* Properties of the battery converter (under ConvertersSpec)              *)

\* the last step was a battery conversion between two distinct supported
\* units
BatteryCall ==
    /\ lastCall.conv = "BatteryConverter"
    /\ lastCall.from_unit \in SupportedUnits("BatteryConverter")
    /\ lastCall.to_unit \in SupportedUnits("BatteryConverter")
    /\ lastCall.from_unit # lastCall.to_unit

\* C12: a battery conversion between two distinct supported units with a
\* supplied voltage that is zero or negative fails with InvalidParameter and
\* returns no value, from charge to energy, from energy to charge and within
\* one family alike.
C12_NonPositiveVoltageFails ==
    (/\ BatteryCall
     /\ lastCall.kwargs.voltage # NoNum
     /\ RLeqZero(lastCall.kwargs.voltage))
    => /\ lastCall.outcome.kind = "InvalidParameter"
       /\ lastCall.outcome.val = NoNum

\* a conversion within the charge family, which does not use the voltage,
\* fails on a voltage of 0
C12_Witness ==
    /\ lastCall.conv = "BatteryConverter"
    /\ lastCall.from_unit = U("mAh")
    /\ lastCall.to_unit = U("Ah")
    /\ lastCall.kwargs.voltage = Num(0)
    /\ lastCall.outcome.kind = "InvalidParameter"

\* C13: a battery conversion whose caller omits the voltage returns what the
\* same call returns with voltage = 3.7, for every value and every pair of
\* supported units; convert(1000, mAh, Wh) without a voltage is 3.7.
C13_DefaultVoltage ==
    (/\ lastCall.conv = "BatteryConverter"
     /\ lastCall.from_unit \in SupportedUnits("BatteryConverter")
     /\ lastCall.to_unit \in SupportedUnits("BatteryConverter")
     /\ lastCall.kwargs.voltage = NoNum)
    => /\ lastCall.outcome
            = ParameterizedConverter_convert(
                  lastCall.value, lastCall.from_unit, lastCall.to_unit,
                  Kwargs(Frac(37, 10), lastCall.kwargs.extra))
       /\ lastCall.outcome.kind = "ok"
       /\ (/\ lastCall.value = Num(1000)
           /\ lastCall.from_unit = U("mAh")
           /\ lastCall.to_unit = U("Wh"))
          => lastCall.outcome = Ok(Frac(37, 10))

\* convert(1000, mAh, Wh) without a voltage has returned 3.7
C13_Witness ==
    /\ lastCall.conv = "BatteryConverter"
    /\ lastCall.kwargs = NoKwargs
    /\ lastCall.value = Num(1000)
    /\ lastCall.from_unit = U("mAh")
    /\ lastCall.to_unit = U("Wh")
    /\ lastCall.outcome = Ok(Frac(37, 10))

\* how many ampere-hours one charge unit is, and how many watt-hours one
\* energy unit is
AmpereHours(unit) == IF unit = U("mAh") THEN Frac(1, 1000) ELSE Num(1)
WattHours(unit) == IF unit = U("kWh") THEN Num(1000) ELSE Num(1)

\* the voltage a battery call runs with
VoltageOf(call) ==
    IF call.kwargs.voltage = NoNum THEN Frac(37, 10) ELSE call.kwargs.voltage

\* C14: for distinct supported units and a voltage V > 0, charge to charge is
\* the ratio of the units with Ah = 1000 mAh and energy to energy is the ratio
\* with kWh = 1000 Wh, neither depending on V; charge to energy is
\* ampere-hours times V in watt-hours, expressed in the target unit; energy
\* to charge is watt-hours divided by V in ampere-hours, expressed in the
\* target unit.  convert(1000, mAh, Wh, 3.7) = 3.7 and
\* convert(30, Wh, Ah, 12) = 2.5.  The charge units {mAh, Ah} and the energy
\* units {Wh, kWh} are disjoint and together are the supported units.
C14_BatteryAlgorithm ==
    /\ ListSet(_CHARGE_UNITS) = {U("mAh"), U("Ah")}
    /\ ListSet(_ENERGY_UNITS) = {U("Wh"), U("kWh")}
    /\ ListSet(_CHARGE_UNITS) \cap ListSet(_ENERGY_UNITS) = {}
    /\ ListSet(_CHARGE_UNITS) \cup ListSet(_ENERGY_UNITS)
          = SupportedUnits("BatteryConverter")
    /\ (BatteryCall /\ ~RLeqZero(VoltageOf(lastCall)))
       => LET v == lastCall.value
              a == lastCall.from_unit
              b == lastCall.to_unit
              V == VoltageOf(lastCall)
              a_charge == a \in {U("mAh"), U("Ah")}
              b_charge == b \in {U("mAh"), U("Ah")}
          IN  /\ (a_charge /\ b_charge)
                 => lastCall.outcome
                      = Ok(RDiv(RMul(v, AmpereHours(a)), AmpereHours(b)))
              /\ (~a_charge /\ ~b_charge)
                 => lastCall.outcome
                      = Ok(RDiv(RMul(v, WattHours(a)), WattHours(b)))
              /\ (a_charge /\ ~b_charge)
                 => lastCall.outcome
                      = Ok(RDiv(RMul(RMul(v, AmpereHours(a)), V), WattHours(b)))
              /\ (~a_charge /\ b_charge)
                 => lastCall.outcome
                      = Ok(RDiv(RDiv(RMul(v, WattHours(a)), V), AmpereHours(b)))
              /\ (v = Num(1000) /\ a = U("mAh") /\ b = U("Wh") /\ V = Frac(37, 10))
                 => lastCall.outcome = Ok(Frac(37, 10))
              /\ (v = Num(30) /\ a = U("Wh") /\ b = U("Ah") /\ V = Num(12))
                 => lastCall.outcome = Ok(Frac(25, 10))

\* convert(30, Wh, Ah, voltage = 12) has returned 2.5
C14_Witness ==
    /\ lastCall.conv = "BatteryConverter"
    /\ lastCall.value = Num(30)
    /\ lastCall.from_unit = U("Wh")
    /\ lastCall.to_unit = U("Ah")
    /\ lastCall.kwargs.voltage = Num(12)
    /\ lastCall.outcome = Ok(Frac(25, 10))

-----------------------------------------------------------------------------
(* Properties of the converters with a factor table (under ConvertersSpec) *)

\* 1024 to the power k
Kibi(k) == Norm(1, 1, 10 * k, 0)

\* the factor tables of the specification: how many metres, kilograms or
\* bits one unit is
FactorToBase(conv, unit) ==
    CASE conv = "LengthConverter" ->
            (CASE unit = U("m") -> Num(1)
               [] unit = U("km") -> Num(1000)
               [] unit = U("cm") -> Frac(1, 100)
               [] unit = U("mm") -> Frac(1, 1000)
               [] unit = U("mile") -> Frac(1609344, 1000)
               [] unit = U("yard") -> Frac(9144, 10000)
               [] unit = U("ft") -> Frac(3048, 10000)
               [] unit = U("inch") -> Frac(254, 10000))
      [] conv = "WeightConverter" ->
            (CASE unit = U("kg") -> Num(1)
               [] unit = U("g") -> Frac(1, 1000)
               [] unit = U("mg") -> Frac(1, 1000000)
               [] unit = U("ton") -> Num(1000)
               [] unit = U("lb") -> RDiv(Num(45359237), Num(100000000))
               [] unit = U("oz") -> RDiv(RDiv(Num(45359237), Num(100000000)), Num(16)))
      [] conv = "DataUnitConverter" ->
            (CASE unit = U("bit") -> Num(1)
               [] unit = U("byte") -> Num(8)
               [] unit \in {U("KB"), U("KiB")} -> RMul(Num(8), Kibi(1))
               [] unit \in {U("MB"), U("MiB")} -> RMul(Num(8), Kibi(2))
               [] unit \in {U("GB"), U("GiB")} -> RMul(Num(8), Kibi(3))
               [] unit \in {U("TB"), U("TiB")} -> RMul(Num(8), Kibi(4)))

FactorConverters == {"LengthConverter", "WeightConverter", "DataUnitConverter"}

\* the last step was a conversion between two distinct supported units by a
\* converter with a factor table
FactorCall ==
    /\ lastCall.conv \in FactorConverters
    /\ lastCall.from_unit \in SupportedUnits(lastCall.conv)
    /\ lastCall.to_unit \in SupportedUnits(lastCall.conv)
    /\ lastCall.from_unit # lastCall.to_unit

\* C15: for length, weight and data size a conversion between distinct
\* supported units returns value * factor(from_unit) / factor(to_unit) with
\* the factor tables of the specification (metres, kilograms, bits), whose
\* units are exactly the supported units; KB and KiB, MB and MiB, GB and GiB,
\* TB and TiB carry the same binary factor, so convert(1, KB, byte) = 1024
\* and convert(v, KB, KiB) = v.
C15_FactorTables ==
    /\ SupportedUnits("LengthConverter")
          = {U("m"), U("km"), U("cm"), U("mm"), U("mile"), U("yard"),
             U("ft"), U("inch")}
    /\ SupportedUnits("WeightConverter")
          = {U("kg"), U("g"), U("mg"), U("ton"), U("lb"), U("oz")}
    /\ SupportedUnits("DataUnitConverter")
          = {U("bit"), U("byte"), U("KB"), U("MB"), U("GB"), U("TB"),
             U("KiB"), U("MiB"), U("GiB"), U("TiB")}
    /\ FactorCall
       => /\ lastCall.outcome
               = Ok(RDiv(RMul(lastCall.value,
                              FactorToBase(lastCall.conv, lastCall.from_unit)),
                         FactorToBase(lastCall.conv, lastCall.to_unit)))
          /\ (/\ lastCall.value = Num(1)
              /\ lastCall.from_unit = U("KB")
              /\ lastCall.to_unit = U("byte"))
             => lastCall.outcome = Ok(Num(1024))
          /\ (/\ lastCall.from_unit = U("KB")
              /\ lastCall.to_unit = U("KiB"))
             => lastCall.outcome = Ok(lastCall.value)

\* convert(1, KB, byte) has returned 1024
C15_Witness ==
    /\ lastCall.conv = "DataUnitConverter"
    /\ lastCall.value = Num(1)
    /\ lastCall.from_unit = U("KB")
    /\ lastCall.to_unit = U("byte")
    /\ lastCall.outcome = Ok(Num(1024))

-----------------------------------------------------------------------------
(* Round trips (under Spec)                                                *)

\* the call that takes the result of the last call back to the unit it came
\* from: same converter, same parameters, and for currency the same instant,
\* so that the table the last call used is still cached and fresh
ConvertBack ==
    LET w == lastCall.outcome.val
        a == lastCall.from_unit
        b == lastCall.to_unit
    IN  CASE lastCall.conv = "LengthConverter" ->
                LengthConverter_convert(w, b, a)
          [] lastCall.conv = "WeightConverter" ->
                WeightConverter_convert(w, b, a)
          [] lastCall.conv = "DataUnitConverter" ->
                DataUnitConverter_convert(w, b, a)
          [] lastCall.conv = "BatteryConverter" ->
                ParameterizedConverter_convert(w, b, a, lastCall.kwargs)
          [] lastCall.conv = "CurrencyConverter" ->
                CurrencyConverter_convert(w, b, a, NoResponse, now,
                                          cached_rates, cache_timestamp).outcome

RoundTripConverters ==
    {"LengthConverter", "WeightConverter", "DataUnitConverter",
     "BatteryConverter", "CurrencyConverter"}

\* the last step was a conversion that returned a number, by a converter
\* with a ratio formula, between supported units, for battery with a
\* positive voltage
RoundTripCall ==
    /\ lastCall.conv \in RoundTripConverters
    /\ lastCall.from_unit \in SupportedUnits(lastCall.conv)
    /\ lastCall.to_unit \in SupportedUnits(lastCall.conv)
    /\ lastCall.outcome.kind = "ok"
    /\ lastCall.conv = "BatteryConverter" => ~RLeqZero(VoltageOf(lastCall))

\* C16: for length, weight, data size, battery at one positive voltage and
\* currency under one rate table, converting the result of
\* convert(v, a, b) back from b to a returns v, for every pair of supported
\* units a, b and every value v.
C16_RoundTrip ==
    RoundTripCall => ConvertBack = Ok(lastCall.value)

-----------------------------------------------------------------------------
(* Properties of the temperature converter (under ConvertersSpec)          *)

\* the two half-formulas of the specification
ToCelsius(v, unit) ==
    CASE unit = U("C") -> v
      [] unit = U("F") -> RMul(RSub(v, Num(32)), Frac(5, 9))
      [] unit = U("K") -> RSub(v, Frac(27315, 100))

FromCelsius(c, unit) ==
    CASE unit = U("C") -> c
      [] unit = U("F") -> RAdd(RMul(c, Frac(9, 5)), Num(32))
      [] unit = U("K") -> RAdd(c, Frac(27315, 100))

\* C17: a temperature conversion between distinct units returns
\* fromCelsius(toCelsius(v, a), b), where toCelsius is (F - 32) * 5 / 9 and
\* K - 273.15 and fromCelsius is C * 9 / 5 + 32 and C + 273.15; hence
\* convert(0, C, F) = 32, convert(100, C, F) = 212, convert(-40, C, F) = -40
\* and convert(-273.15, C, K) = 0.
C17_TemperatureFormulas ==
    (/\ lastCall.conv = "TemperatureConverter"
     /\ lastCall.from_unit \in {U("C"), U("F"), U("K")}
     /\ lastCall.to_unit \in {U("C"), U("F"), U("K")}
     /\ lastCall.from_unit # lastCall.to_unit)
    => LET v == lastCall.value
           a == lastCall.from_unit
           b == lastCall.to_unit
       IN  /\ lastCall.outcome = Ok(FromCelsius(ToCelsius(v, a), b))
           /\ (a = U("C") /\ b = U("F") /\ v = Num(0))
              => lastCall.outcome = Ok(Num(32))
           /\ (a = U("C") /\ b = U("F") /\ v = Num(100))
              => lastCall.outcome = Ok(Num(212))
           /\ (a = U("C") /\ b = U("F") /\ v = Num(-40))
              => lastCall.outcome = Ok(Num(-40))
           /\ (a = U("C") /\ b = U("K") /\ v = Frac(-27315, 100))
              => lastCall.outcome = Ok(Num(0))

\* convert(-40, C, F) has returned -40
C17_Witness ==
    /\ lastCall.conv = "TemperatureConverter"
    /\ lastCall.value = Num(-40)
    /\ lastCall.from_unit = U("C")
    /\ lastCall.to_unit = U("F")
    /\ lastCall.outcome = Ok(Num(-40))

-----------------------------------------------------------------------------
(* The name of the temperature converter (under RegistrySpec)              *)

\* C18: the name of the temperature converter is "Temperature": that is the
\* key of every registered temperature converter, and the key under which
\* get_converter finds it.
C18_TemperatureName ==
    /\ \A i \in 1..Len(converters) :
          converters[i][2].cls = "TemperatureConverter"
          => converters[i][1] = "Temperature"
    /\ (/\ regCall.op = "get_converter"
        /\ regCall.name = "Temperature"
        /\ \E i \in 1..Len(regCall.pre) :
              regCall.pre[i][2].cls = "TemperatureConverter")
       => /\ regCall.exc = "none"
          /\ regCall.result.cls = "TemperatureConverter"

-----------------------------------------------------------------------------
(* The cache as a whole (under Spec)                                       *)

\* a table with a number for every configured code and no other key
CompleteTable(table) ==
    /\ DOMAIN table = CurrencyCodes
    /\ \A code \in CurrencyCodes : table[code] # NoNum

\* C19: in a single-threaded run, after any sequence of currency conversions
\* (cache hits, successful and failed fetches) the cache is either unset, no
\* table and no timestamp, or holds the complete table of the most recent
\* successful fetch together with the time that fetch recorded; a table is
\* never partly updated nor paired with the timestamp of another fetch.
C19_CachePairing ==
    IF lastFetch = None
    THEN cached_rates = None /\ cache_timestamp = None
    ELSE /\ cached_rates = Some(lastFetch.val.table)
         /\ cache_timestamp = Some(lastFetch.val.time)
         /\ CompleteTable(cached_rates.val)

\* a refresh at a later time has replaced a cached table by another one
C19_Witness ==
    /\ lastCall.conv = "CurrencyConverter"
    /\ lastCall.requests = 1
    /\ lastCall.pre_rates # None
    /\ cached_rates # lastCall.pre_rates
    /\ cache_timestamp = Some(now)
    /\ lastCall.pre_timestamp.val < now

-----------------------------------------------------------------------------
(* Two threads and the cached table (under ThreadSpec)                     *)

\* the tables built from the responses accepted so far
FetchedTables == {f.table : f \in fetches}

\* the cached table is the whole table of one fetch
CachedTableWhole ==
    cached_rates # None
    => /\ cached_rates.val \in FetchedTables
       /\ CompleteTable(cached_rates.val)

\* a call between two distinct supported units that returned a number
\* computed it from the whole table of one fetch
ResultFromOneTable ==
    \A t \in Threads :
        (/\ threads[t].pc = "idle"
         /\ threads[t].outcome.kind = "ok"
         /\ threads[t].from_unit # threads[t].to_unit)
        => \E table \in FetchedTables :
              /\ threads[t].rates = Some(table)
              /\ threads[t].outcome
                    = ConvertWithRates(threads[t].value,
                                       CodeOf(threads[t].from_unit),
                                       CodeOf(threads[t].to_unit), table)

\* the thread t executes the assignment of the cached table
Stores(t) ==
    threads[t].pc = "store_rates" /\ threads'[t].pc = "store_timestamp"

\* the cached table changes only by the assignment of a thread, which
\* leaves the table that thread built, whatever was cached before
LastWriterWins ==
    /\ \A t \in Threads : Stores(t) => cached_rates' = threads[t].table
    /\ cached_rates' # cached_rates => \E t \in Threads : Stores(t)

\* C20: when two threads convert currencies concurrently, both may find the
\* cache expired, fetch and write; in every interleaving the cached table is
\* at all times the complete table of one fetch, the one written last, never
\* a mixture of two, and each call that returns a result computed it from
\* one complete table.
C20_WholesaleReplacement ==
    /\ [](CachedTableWhole /\ ResultFromOneTable)
    /\ [][LastWriterWins]_vars

\* thread 2 started after a table fetched earlier had expired, both threads
\* fetched, the tables differ, both have written theirs, thread 2 last, and
\* thread 1 has returned a result computed from the table of thread 2
C20_Witness ==
    /\ threads[2].pc = "return_stored"
    /\ \E f \in fetches :
          f.time + _CACHE_DURATION <= threads[2].current_time
    /\ threads[1].pc = "idle"
    /\ threads[1].outcome.kind = "ok"
    /\ threads[1].table # None
    /\ threads[1].table # threads[2].table
    /\ threads[1].rates = threads[2].table
    /\ cached_rates = threads[2].table
    /\ Cardinality(fetches) = 3

-----------------------------------------------------------------------------
(* Failures of the fetch path (under Spec)                                 *)

\* C21: a currency conversion between two distinct supported units fails
\* with ExchangeRateUnavailable and nothing else when its request brings no
\* usable response (transport error, error status, invalid JSON, JSON that
\* is not an object, result not "success", rates missing or not a mapping,
\* a configured code absent, a rate that is not a number), and returns a
\* number whenever it has a table the fetch accepted, just fetched or
\* cached, a rate of 0 included.
C21_OnlyExchangeRateUnavailable ==
    RateCall
    => IF lastCall.requests = 1 /\ ~UsableResponse(lastCall.resp)
       THEN lastCall.outcome.kind = "ExchangeRateUnavailable"
       ELSE lastCall.outcome.kind = "ok"

-----------------------------------------------------------------------------
(* Order of the checks in convert (under Spec)                             *)

\* C22: a currency conversion with an unsupported unit, or with
\* from_unit = to_unit, sends no request and leaves the cached table and
\* timestamp as they were, whether the cache is empty, fresh or expired:
\* the units are validated and equal units return before the rate table is
\* touched.
C22_NoFetchBeforeValidation ==
    (/\ lastCall.conv = "CurrencyConverter"
     /\ \/ lastCall.from_unit \notin SupportedUnits("CurrencyConverter")
        \/ lastCall.to_unit \notin SupportedUnits("CurrencyConverter")
        \/ lastCall.from_unit = lastCall.to_unit)
    => /\ lastCall.requests = 0
       /\ lastCall.resp = NoResponse
       /\ CacheUntouched
       /\ lastCall.outcome.kind \in {"UnsupportedUnit", "ok"}

\* with an expired table in the cache, a call with an unsupported to_unit
\* has failed without a request
C22_Witness ==
    /\ lastCall.conv = "CurrencyConverter"
    /\ lastCall.from_unit \in SupportedUnits("CurrencyConverter")
    /\ lastCall.to_unit = U("INVALID")
    /\ lastCall.pre_rates # None
    /\ lastCall.pre_timestamp # None
    /\ now - lastCall.pre_timestamp.val >= _CACHE_DURATION
    /\ lastCall.requests = 0
    /\ cache_timestamp = lastCall.pre_timestamp
    /\ lastCall.outcome.kind = "UnsupportedUnit"

\* C23: a battery conversion with a supplied voltage that is zero or
\* negative fails with UnsupportedUnit, not InvalidParameter, when a unit is
\* unsupported, and returns the value unchanged when from_unit = to_unit is
\* supported: the units are validated first, equal units return next, and
\* the voltage is checked only after that.
C23_VoltageCheckedLast ==
    (/\ lastCall.conv = "BatteryConverter"
     /\ lastCall.kwargs.voltage # NoNum
     /\ RLeqZero(lastCall.kwargs.voltage))
    => IF \/ lastCall.from_unit \notin SupportedUnits("BatteryConverter")
          \/ lastCall.to_unit \notin SupportedUnits("BatteryConverter")
       THEN lastCall.outcome.kind = "UnsupportedUnit"
       ELSE IF lastCall.from_unit = lastCall.to_unit
       THEN lastCall.outcome = Ok(lastCall.value)
       ELSE lastCall.outcome.kind = "InvalidParameter"

\* a battery call with a negative voltage and an unsupported to_unit has
\* failed with UnsupportedUnit
C23_Witness ==
    /\ lastCall.conv = "BatteryConverter"
    /\ lastCall.kwargs.voltage = Num(-1)
    /\ lastCall.from_unit = U("mAh")
    /\ lastCall.to_unit = U("INVALID")
    /\ lastCall.outcome = RaiseUnit(U("INVALID"))

\* C24: a battery conversion that passes named parameters other than
\* voltage has the outcome, result or error, of the same call without them,
\* for every value, pair of units and voltage.
C24_ExtraParametersIgnored ==
    (lastCall.conv = "BatteryConverter" /\ lastCall.kwargs.extra)
    => lastCall.outcome
         = ParameterizedConverter_convert(
               lastCall.value, lastCall.from_unit, lastCall.to_unit,
               Kwargs(lastCall.kwargs.voltage, FALSE))

\* a call from Wh to Ah at 12 V with an extra named parameter has returned
\* a number
C24_Witness ==
    /\ lastCall.conv = "BatteryConverter"
    /\ lastCall.kwargs = Kwargs(Num(12), TRUE)
    /\ lastCall.from_unit = U("Wh")
    /\ lastCall.to_unit = U("Ah")
    /\ lastCall.outcome.kind = "ok"

-----------------------------------------------------------------------------
(* What the window shows (under WindowSpec)                                *)

\* the last handler called convert and the call failed with this kind
ConvertFailed(kind) == ui.called /\ ui.outcome.kind = kind

\* the value field is empty or does not hold a number
NoValue == ~ParseFloat(Strip(ui.from_value_var)).some

\* C25: when the conversion of a handler fails with UnsupportedUnit or, as
\* for a voltage that is not positive, with InvalidParameter, the handler
\* shows a blocking error dialog; when the value field is empty or not a
\* number, the handler shows no dialog.
C25_ErrorsAreDialogs ==
    /\ (ConvertFailed("UnsupportedUnit") \/ ConvertFailed("InvalidParameter"))
       => ui.messagebox = "showerror"
    /\ NoValue => ui.messagebox = "none"

-----------------------------------------------------------------------------
(* The keys of the cached table (under Spec)                               *)

-----------------------------------------------------------------------------
(* One cache for all CurrencyConverter objects (under Spec)                *)

\* C27: the cache belongs to the process, not to a converter object. While
\* the cached table is younger than 600 seconds, a conversion between two
\* distinct supported units through any instance, the one whose call stored
\* the table or another, sends no request and computes from that table; and
\* after a call through any instance has stored a table, that table is the
\* one every instance reads.
C27_ProcessWideCache ==
    /\ (/\ RateCall
        /\ instances.self \in CurrencyInstances
        /\ CacheValid(lastCall.pre_rates, lastCall.pre_timestamp, now))
       => /\ lastCall.requests = 0
          /\ cached_rates = lastCall.pre_rates
          /\ lastCall.outcome =
                ConvertWithRates(lastCall.value, CodeOf(lastCall.from_unit),
                                 CodeOf(lastCall.to_unit), lastCall.pre_rates.val)
    /\ (RateCall /\ lastCall.requests = 1 /\ UsableResponse(lastCall.resp))
       => \A i \in CurrencyInstances :
             SelfAttr(i, instances.stored_by, cached_rates)
               = Some(ConfiguredRates(lastCall.resp))

\* instance 2 converts, without a request, from the table that a call through
\* instance 1 has just stored in place of an expired one
C27_Witness ==
    /\ RateCall
    /\ instances = [self |-> 2, stored_by |-> 1]
    /\ lastCall.requests = 0
    /\ lastCall.outcome.kind = "ok"
    /\ lastCall.pre_timestamp = Some(_CACHE_DURATION)
    /\ now = _CACHE_DURATION

-----------------------------------------------------------------------------
(* Validation before the same-unit return (under Spec)                     *)

\* C28: in every converter the units are validated before the same-unit
\* return and from_unit before to_unit: a call with from_unit = to_unit, a
\* label the converter does not support, fails with UnsupportedUnit instead
\* of returning its value, and when neither unit is supported the error is
\* the one for from_unit.
C28_ValidationFirst ==
    /\ (/\ Called
        /\ lastCall.from_unit = lastCall.to_unit
        /\ lastCall.from_unit \notin SupportedUnits(lastCall.conv))
       => /\ lastCall.outcome.kind = "UnsupportedUnit"
          /\ lastCall.outcome # Ok(lastCall.value)
    /\ (/\ Called
        /\ lastCall.from_unit \notin SupportedUnits(lastCall.conv)
        /\ lastCall.to_unit \notin SupportedUnits(lastCall.conv))
       => lastCall.outcome = RaiseUnit(lastCall.from_unit)

\* a length call with two different labels, neither one supported
C28_Witness ==
    /\ lastCall.conv = "LengthConverter"
    /\ lastCall.from_unit = U("INVALID")
    /\ lastCall.to_unit = U("USD")
    /\ lastCall.outcome = RaiseUnit(U("INVALID"))

-----------------------------------------------------------------------------
(* Freshness of the table a result is computed from (under                 *)
(* SingleThreadSpec)                                                       *)

\* the table and the timestamp in the cache were recorded by one fetch, the
\* timestamp being the clock value read at entry of the fetching call
CacheFromOneFetch ==
    /\ cached_rates # None
    /\ cache_timestamp # None
    /\ Fetch(cached_rates.val, cache_timestamp.val) \in fetches

\* the last call of the thread was a conversion between two distinct
\* supported units and has returned
RateCallReturned(t) ==
    /\ threads[t].pc = "idle"
    /\ threads[t].from_unit \in SupportedUnits("CurrencyConverter")
    /\ threads[t].to_unit \in SupportedUnits("CurrencyConverter")
    /\ threads[t].from_unit # threads[t].to_unit

\* C29: with one thread and a clock that does not go back, a currency
\* conversion between two distinct units that returns a result computes it
\* from the cached table, whose timestamp t is the clock value read at entry
\* of the call that fetched it and is less than 600 seconds before the clock
\* value the converting call read; a call whose request failed returns no
\* result, so a table kept after a failed refresh answers no call.
C29_NoStaleRates ==
    /\ threads[MainThread].pc \in {"return_cached", "return_stored"}
       => /\ CacheFromOneFetch
          /\ threads[MainThread].current_time - cache_timestamp.val < 600
          /\ threads[MainThread].current_time - cache_timestamp.val >= 0
    /\ (RateCallReturned(MainThread) /\ threads[MainThread].outcome.kind = "ok")
       => /\ CacheFromOneFetch
          /\ threads[MainThread].rates = cached_rates
          /\ threads[MainThread].outcome =
                ConvertWithRates(threads[MainThread].value,
                                 CodeOf(threads[MainThread].from_unit),
                                 CodeOf(threads[MainThread].to_unit),
                                 cached_rates.val)
    /\ (RateCallReturned(MainThread) /\ threads[MainThread].rates = None)
       => threads[MainThread].outcome.kind # "ok"

\* a call entered 599 seconds after the entry of the fetching call is about
\* to return the cached table
C29_Witness ==
    /\ threads[MainThread].pc = "return_cached"
    /\ cache_timestamp = Some(0)
    /\ threads[MainThread].current_time = 599

-----------------------------------------------------------------------------
(* The cached pair under concurrent calls (under ThreadSpec)               *)

\* the next step of the thread reads the cache
Observes(t) ==
    threads[t].pc \in {"check_rates", "check_timestamp", "return_cached"}

\* where a thread is about to read the cache, the cache is empty or its
\* table and its timestamp come from one fetch
PairFromOneFetch ==
    (/\ \E t \in Threads : Observes(t)
     /\ cached_rates # None \/ cache_timestamp # None)
    => CacheFromOneFetch

\* a step does not unset the cached timestamp or set it to an earlier time
TimestampNotDecreasing ==
    cache_timestamp # None
    => /\ cache_timestamp' # None
       /\ cache_timestamp'.val >= cache_timestamp.val

\* C30: with several threads converting currencies, in every interleaving
\* and in every state a thread can read the cache in, the cached timestamp
\* is the one recorded by the fetch that produced the cached table, the two
\* being replaced as one unit, and no step makes the cached timestamp
\* smaller.
C30_AtomicPair == [] PairFromOneFetch /\ [][TimestampNotDecreasing]_vars

====
